---- MODULE Spec2Model ----
(***************************************************************************)
(* Production-graph solver of endfield-tool (src/src/lib/calculator.ts,    *)
(* the bipartite-graph version, lines 1064-1809): graph builder, Tarjan    *)
(* SCC detection, condensed DAG + Kahn sort, demand flow, SCC linear       *)
(* system, tree assembly.  JS numbers are modelled as exact rationals.     *)
(***************************************************************************)
EXTENDS Integers, Sequences, FiniteSets, TLC

\* args: the arguments of the calls of calculateProductionPlan; plan: what the
\* last call returned; prevPlan: what the call before it returned; calls: how
\* many calls were made.
\* view: the state of the flow view (its props, React state and refs).
VARIABLES args, plan, prevPlan, calls, flowGraph, poolManager, poolLog, view
vars == <<args, plan, prevPlan, calls, flowGraph, poolManager, poolLog, view>>

\* ------------------------------------------------------------------------
\* Rational numbers <<n, d>> with d > 0, in lowest terms.
\* ------------------------------------------------------------------------
RECURSIVE Gcd(_, _)
Gcd(a, b) == IF b = 0 THEN a ELSE Gcd(b, a % b)

Abs(x) == IF x < 0 THEN -x ELSE x

Rat(n, d) ==
  LET s == IF d < 0 THEN -1 ELSE 1
      g == Gcd(Abs(n), Abs(d))
  IN  <<(s * n) \div g, (s * d) \div g>>

RInt(n) == <<n, 1>>
RZero == <<0, 1>>
RAdd(a, b) == Rat(a[1] * b[2] + b[1] * a[2], a[2] * b[2])
RSub(a, b) == Rat(a[1] * b[2] - b[1] * a[2], a[2] * b[2])
RMul(a, b) == Rat(a[1] * b[1], a[2] * b[2])
RDiv(a, b) == Rat(a[1] * b[2], a[2] * b[1])
RLt(a, b) == a[1] * b[2] < b[1] * a[2]
RLe(a, b) == a[1] * b[2] <= b[1] * a[2]
RAbs(a) == <<Abs(a[1]), a[2]>>
RMax(a, b) == IF RLt(a, b) THEN b ELSE a

\* ------------------------------------------------------------------------
\* Ordered sets (JS Set / Map keys keep insertion order): sequences
\* without duplicates.
\* ------------------------------------------------------------------------
Range(s) == {s[i] : i \in 1..Len(s)}
SetAdd(s, x) == IF x \in Range(s) THEN s ELSE Append(s, x)
IndexOf(s, x) == CHOOSE i \in 1..Len(s) : s[i] = x

RECURSIVE Dedup(_)
Dedup(s) == IF Len(s) = 0 THEN <<>>
            ELSE SetAdd(Dedup(SubSeq(s, 1, Len(s) - 1)), s[Len(s)])

\* the order is left as it is
ReverseOmitted(s) == s

RECURSIVE Reverse(_)
Reverse(s) == IF Len(s) = 0 THEN <<>>
              ELSE Append(Reverse(Tail(s)), Head(s))

\* Array.prototype.find on an input/output list: the first entry of the item.
HasEntry(list, itemId) == \E i \in 1..Len(list) : list[i].itemId = itemId
FindAmount(list, itemId) ==
  IF HasEntry(list, itemId)
  THEN list[CHOOSE i \in 1..Len(list) :
              /\ list[i].itemId = itemId
              /\ \A j \in 1..(i - 1) : list[j].itemId # itemId].amount
  ELSE 0

ItemIdsOf(list) == [i \in 1..Len(list) |-> list[i].itemId]

\* ------------------------------------------------------------------------
\* Helpers of calculator.ts
\* ------------------------------------------------------------------------
NoError == "none"
NoRecipe == "none"

calcRate(amount, craftingTime) == Rat(amount * 60, craftingTime)

Entry(i, a) == [itemId |-> i, amount |-> a]
Recipe(id, ins, outs, ct) ==
  [id |-> id, inputs |-> ins, outputs |-> outs, craftingTime |-> ct,
   facilityId |-> "F1"]

RecipeIdsOf(recipes) == {recipes[i].id : i \in 1..Len(recipes)}
\* recipeMap.get(id); new Map(array) keeps the last entry of a key
RecipeById(recipes, id) ==
  recipes[CHOOSE i \in 1..Len(recipes) :
            /\ recipes[i].id = id
            /\ \A j \in (i + 1)..Len(recipes) : recipes[j].id # id]

\* the items every solve treats as raw (data module, not part of src/)
forcedRawMaterials == {"D"}

defaultRecipeSelector(recipes, visitedPath) == recipes[1]

smartRecipeSelector(recipes, visitedPath) ==
  IF visitedPath = {} THEN defaultRecipeSelector(recipes, visitedPath)
  ELSE LET nonCircular ==
             SelectSeq(recipes, LAMBDA r :
               ~\E i \in 1..Len(r.inputs) : r.inputs[i].itemId \in visitedPath)
       IN  IF Len(nonCircular) > 0 THEN nonCircular[1] ELSE recipes[1]

recipeSelector(name, recipes, visitedPath) ==
  IF name = "smart" THEN smartRecipeSelector(recipes, visitedPath)
  ELSE defaultRecipeSelector(recipes, visitedPath)

\* ------------------------------------------------------------------------
\* Phase 1: buildBipartiteGraph
\* ------------------------------------------------------------------------
EmptyGraph(in) ==
  [itemNodes      |-> <<>>,
   recipeNodes    |-> <<>>,
   consumedKeys   |-> <<>>,
   itemConsumedBy |-> [i \in in.allIds |-> <<>>],
   itemProducedBy |-> [i \in in.allIds |-> NoRecipe],
   recipeInputs   |-> [r \in RecipeIdsOf(in.recipes) |-> <<>>],
   recipeOutput   |-> [r \in RecipeIdsOf(in.recipes) |-> <<>>],
   targets        |-> {in.targets[i].itemId : i \in 1..Len(in.targets)},
   rawMaterials   |-> {},
   visitedItems   |-> {},
   walk           |-> <<>>,
   policyCalls    |-> <<>>,
   err            |-> NoError]

\* forcedRawMaterials.has(itemId) || (manualRawMaterials?.has(itemId) ?? false)
isRawItemForcedOnly(in, itemId) == itemId \in forcedRawMaterials
isRawItem(in, itemId) ==
  itemId \in forcedRawMaterials \/ itemId \in in.manualRawMaterials

\* the recipes whose outputs include the item, in catalog order
availableRecipesByFirstOutput(in, itemId) ==
  SelectSeq(in.recipes, LAMBDA r : r.outputs[1].itemId = itemId)
availableRecipes(in, itemId) ==
  SelectSeq(in.recipes, LAMBDA r : HasEntry(r.outputs, itemId))

\* only override recipes are looked up with a check
getOrThrowRecipesOnly(keys, key, type) ==
  IF type = "Override recipe" /\ key \notin keys
  THEN type \o " not found: " \o key
  ELSE NoError

\* getOrThrow: the message of the Error thrown when the map has no such key,
\* NoError when it has
getOrThrow(keys, key, type) ==
  IF key \notin keys THEN type \o " not found: " \o key ELSE NoError

RECURSIVE traverse(_, _, _)
RECURSIVE traverseItem(_, _, _)
RECURSIVE traverseInputs(_, _, _, _)

traverseInputs(in, g, recipe, k) ==
  IF k > Len(recipe.inputs) \/ g.err # NoError THEN g
  ELSE LET inputId == recipe.inputs[k].itemId
           g1 == [g EXCEPT
                    !.recipeInputs[recipe.id] = SetAdd(@, inputId),
                    !.consumedKeys = SetAdd(@, inputId),
                    !.itemConsumedBy[inputId] = SetAdd(@, recipe.id)]
       IN  traverseInputs(in, traverse(in, g1, inputId), recipe, k + 1)

\* `new Set([itemId])`: what traverse passes to the policy as visitedPath
selectorPath(walk, itemId) == {itemId}

\* traverse(itemId) below the calls of traverse for the items of g.walk
traverseItem(in, g, itemId) ==
  IF g.err # NoError \/ itemId \in g.visitedItems THEN g
  ELSE
    LET g1 == [g EXCEPT !.visitedItems = @ \cup {itemId},
                        !.walk = Append(@, itemId)] IN
    IF getOrThrow(in.items, itemId, "Item") # NoError
    THEN [g1 EXCEPT !.err = getOrThrow(in.items, itemId, "Item")]
    ELSE
      LET isRaw == isRawItem(in, itemId)
          g2 == [g1 EXCEPT !.itemNodes = Append(@, itemId)]
          avail == availableRecipes(in, itemId)
      IN
      IF isRaw \/ Len(avail) = 0
      THEN [g2 EXCEPT !.rawMaterials = @ \cup {itemId}]
      ELSE
        LET hasOverride == itemId \in DOMAIN in.recipeOverrides
            overrideId == in.recipeOverrides[itemId]
        IN
        IF hasOverride
           /\ getOrThrow(RecipeIdsOf(in.recipes), overrideId,
                         "Override recipe") # NoError
        THEN [g2 EXCEPT !.err = getOrThrow(RecipeIdsOf(in.recipes), overrideId,
                                           "Override recipe")]
        ELSE
          LET selected ==
                IF hasOverride THEN RecipeById(in.recipes, overrideId)
                ELSE recipeSelector(in.recipeSelector, avail,
                                    selectorPath(g2.walk, itemId))
              g2c == IF hasOverride THEN g2
                     ELSE [g2 EXCEPT
                             !.policyCalls =
                                Append(@, [itemId      |-> itemId,
                                           walk        |-> g2.walk,
                                           visitedPath |->
                                              selectorPath(g2.walk, itemId),
                                           candidates  |-> RecipeIdsOf(avail),
                                           chosen      |-> selected.id])]
          IN
          IF getOrThrow(in.facilities, selected.facilityId,
                        "Facility") # NoError
          THEN [g2 EXCEPT !.err = getOrThrow(in.facilities,
                                             selected.facilityId, "Facility")]
          ELSE
            LET g3 == IF selected.id \in Range(g2c.recipeNodes) THEN g2c
                      ELSE [g2c EXCEPT
                              !.recipeNodes = Append(@, selected.id),
                              !.recipeOutput[selected.id] =
                                 Dedup(ItemIdsOf(selected.outputs)),
                              !.recipeInputs[selected.id] = <<>>]
                g4 == [g3 EXCEPT !.itemProducedBy[itemId] = selected.id]
            IN  traverseInputs(in, g4, selected, 1)

traverse(in, g, itemId) ==
  [traverseItem(in, g, itemId) EXCEPT !.walk = g.walk]

RECURSIVE traverseTargets(_, _, _)
traverseTargets(in, g, k) ==
  IF k > Len(in.targets) THEN g
  ELSE traverseTargets(in, traverse(in, g, in.targets[k].itemId), k + 1)

buildBipartiteGraph(in) == traverseTargets(in, EmptyGraph(in), 1)

\* ------------------------------------------------------------------------
\* Phase 2: detectSCCs (Tarjan).  Edges: item -> the recipes consuming it,
\* recipe -> its output items.
\* ------------------------------------------------------------------------
NodeIds(in) == in.allIds \cup RecipeIdsOf(in.recipes)
Unset == -1

\* Array.prototype.sort() over the item ids (code-unit order)
ItemOrder == <<"A", "B", "C", "D", "E">>
SortIds(S) == SelectSeq(ItemOrder, LAMBDA x : x \in S)

\* `scc-${Array.from(sccItems).sort().join("-")}`
\* (the second form joins the items in the order Tarjan popped them)
sccIdUnsorted(sccItems) == <<"scc">> \o sccItems
sccId(sccItems) == <<"scc">> \o SortIds(Range(sccItems))

sccExternalInputs(g, sccItems, sccRecipes) ==
  LET RECURSIVE perInput(_, _, _)
      perInput(acc, inputs, k) ==
        IF k > Len(inputs) THEN acc
        ELSE perInput(IF inputs[k] \in Range(sccItems) THEN acc
                      ELSE SetAdd(acc, inputs[k]), inputs, k + 1)
      RECURSIVE perRecipe(_, _)
      perRecipe(acc, j) ==
        IF j > Len(sccRecipes) THEN acc
        ELSE perRecipe(perInput(acc, g.recipeInputs[sccRecipes[j]], 1), j + 1)
  IN  perRecipe(<<>>, 1)

\* the do/while that pops the stack down to nodeId
RECURSIVE popSCC(_, _, _, _, _)
popSCC(g, st, nodeId, sccItems, sccRecipes) ==
  LET w  == st.stack[Len(st.stack)]
      s1 == [st EXCEPT !.stack = SubSeq(@, 1, Len(@) - 1),
                       !.onStack = @ \ {w}]
      isItem == w \in Range(g.itemNodes)
      its == IF isItem THEN SetAdd(sccItems, w) ELSE sccItems
      rcs == IF isItem THEN sccRecipes ELSE SetAdd(sccRecipes, w)
  IN  IF w # nodeId THEN popSCC(g, s1, nodeId, its, rcs)
      ELSE IF Len(its) + Len(rcs) > 1
           THEN [s1 EXCEPT !.sccs = Append(@,
                   [id |-> sccId(its), items |-> its, recipes |-> rcs,
                    externalInputs |-> sccExternalInputs(g, its, rcs)])]
           ELSE s1

\* a successor still on the stack: lowlink = min(lowlink, index of successor)
lowlinkOnStackIgnored(st, nodeId, succId) == st
lowlinkOnStack(st, nodeId, succId) ==
  [st EXCEPT !.lowlinks[nodeId] =
     IF st.indices[succId] < @ THEN st.indices[succId] ELSE @]

RECURSIVE strongConnect(_, _, _, _)
RECURSIVE visitSuccessors(_, _, _, _, _, _)

visitSuccessors(g, st, nodeId, succs, succType, k) ==
  IF k > Len(succs) THEN st
  ELSE LET succId == succs[k] IN
       IF st.indices[succId] = Unset
       THEN LET s1 == strongConnect(g, st, succId, succType)
                s2 == [s1 EXCEPT !.lowlinks[nodeId] =
                         IF s1.lowlinks[succId] < @ THEN s1.lowlinks[succId]
                         ELSE @]
            IN  visitSuccessors(g, s2, nodeId, succs, succType, k + 1)
       ELSE IF succId \in st.onStack
       THEN visitSuccessors(g, lowlinkOnStack(st, nodeId, succId), nodeId,
                            succs, succType, k + 1)
       ELSE visitSuccessors(g, st, nodeId, succs, succType, k + 1)

strongConnect(g, st, nodeId, nodeType) ==
  LET s1 == [st EXCEPT !.indices[nodeId] = st.index,
                       !.lowlinks[nodeId] = st.index,
                       !.index = @ + 1,
                       !.stack = Append(@, nodeId),
                       !.onStack = @ \cup {nodeId}]
      succs == IF nodeType = "item" THEN g.itemConsumedBy[nodeId]
               ELSE g.recipeOutput[nodeId]
      succType == IF nodeType = "item" THEN "recipe" ELSE "item"
      s2 == visitSuccessors(g, s1, nodeId, succs, succType, 1)
  IN  IF s2.lowlinks[nodeId] = s2.indices[nodeId]
      THEN popSCC(g, s2, nodeId, <<>>, <<>>)
      ELSE s2

detectSCCs(in, g) ==
  LET st0 == [indices  |-> [n \in NodeIds(in) |-> Unset],
              lowlinks |-> [n \in NodeIds(in) |-> Unset],
              onStack  |-> {},
              stack    |-> <<>>,
              index    |-> 0,
              sccs     |-> <<>>]
      RECURSIVE roots(_, _)
      roots(st, k) ==
        IF k > Len(g.itemNodes) THEN st
        ELSE roots(IF st.indices[g.itemNodes[k]] = Unset
                   THEN strongConnect(g, st, g.itemNodes[k], "item")
                   ELSE st, k + 1)
  IN  roots(st0, 1).sccs

\* ------------------------------------------------------------------------
\* Phase 3: buildCondensedDAGAndSort (Kahn).  A condensed vertex is named by
\* the id of its SCC, or by <<"n", id>> for an item or recipe outside SCCs.
\* ------------------------------------------------------------------------
PlainId(id) == <<"n", id>>

RECURSIVE Concat(_)
Concat(ss) == IF Len(ss) = 0 THEN <<>> ELSE Head(ss) \o Concat(Tail(ss))

\* nodeToSCC.get(id) || id ; a later SCC overwrites an earlier one
nodeToSCC(sccs, id) ==
  LET hits == {k \in 1..Len(sccs) :
                 id \in Range(sccs[k].items) \cup Range(sccs[k].recipes)}
  IN  IF hits = {} THEN PlainId(id)
      ELSE sccs[CHOOSE k \in hits : \A j \in hits : j <= k].id

InSomeSCC(sccs, id) ==
  \E k \in 1..Len(sccs) : id \in Range(sccs[k].items) \cup Range(sccs[k].recipes)

condensedNodeKeys(g, sccs) ==
  Dedup([k \in 1..Len(sccs) |-> sccs[k].id])
  \o [k \in 1..Len(SelectSeq(g.itemNodes, LAMBDA i : ~InSomeSCC(sccs, i))) |->
        PlainId(SelectSeq(g.itemNodes, LAMBDA i : ~InSomeSCC(sccs, i))[k])]
  \o [k \in 1..Len(SelectSeq(g.recipeNodes, LAMBDA r : ~InSomeSCC(sccs, r))) |->
        PlainId(SelectSeq(g.recipeNodes, LAMBDA r : ~InSomeSCC(sccs, r))[k])]

\* the addEdge calls in code order, endpoints already condensed
condensedEdgeList(g, sccs) ==
  LET fromItems ==
        Concat([a \in 1..Len(g.consumedKeys) |->
                 [b \in 1..Len(g.itemConsumedBy[g.consumedKeys[a]]) |->
                    <<nodeToSCC(sccs, g.consumedKeys[a]),
                      nodeToSCC(sccs, g.itemConsumedBy[g.consumedKeys[a]][b])>>]])
      fromRecipes ==
        Concat([a \in 1..Len(g.recipeNodes) |->
                 [b \in 1..Len(g.recipeOutput[g.recipeNodes[a]]) |->
                    <<nodeToSCC(sccs, g.recipeNodes[a]),
                      nodeToSCC(sccs, g.recipeOutput[g.recipeNodes[a]][b])>>]])
  IN  Dedup(SelectSeq(fromItems \o fromRecipes, LAMBDA e : e[1] # e[2]))

edgesFrom(edgeList, c) ==
  LET mine == SelectSeq(edgeList, LAMBDA e : e[1] = c)
  IN  [k \in 1..Len(mine) |-> mine[k][2]]

\* the while loop of Kahn's algorithm; a queued id that is no condensed
\* vertex makes condensedEdges.get(nodeId)!.forEach throw a TypeError
RECURSIVE kahnLoop(_, _, _, _, _)
RECURSIVE kahnRelax(_, _, _, _)

kahnRelax(targets, k, queue, inDegree) ==
  IF k > Len(targets) THEN [queue |-> queue, inDegree |-> inDegree]
  ELSE LET t == targets[k]
           newDegree == inDegree[t] - 1
       IN  kahnRelax(targets, k + 1,
                     IF newDegree = 0 THEN Append(queue, t) ELSE queue,
                     [inDegree EXCEPT ![t] = newDegree])

kahnLoop(keys, edgeList, queue, inDegree, topoOrder) ==
  IF Len(queue) = 0 THEN [order |-> topoOrder, err |-> NoError]
  ELSE LET nodeId == Head(queue) IN
       IF nodeId \notin Range(keys)
       THEN [order |-> topoOrder, err |-> "TypeError"]
       ELSE LET r == kahnRelax(edgesFrom(edgeList, nodeId), 1,
                               Tail(queue), inDegree)
            IN  kahnLoop(keys, edgeList, r.queue, r.inDegree,
                         Append(topoOrder, nodeId))

buildCondensedDAGAndSort(g, sccs) ==
  LET keys == condensedNodeKeys(g, sccs)
      edgeList == condensedEdgeList(g, sccs)
      \* inDegree keys: the condensed vertices, then every other edge target
      \* in the order condensedEdges.forEach meets it
      byFrom == Concat([a \in 1..Len(keys) |->
                          SelectSeq(edgeList, LAMBDA e : e[1] = keys[a])])
      degKeys == Dedup(keys \o [k \in 1..Len(byFrom) |-> byFrom[k][2]])
      inDegree == [c \in Range(degKeys) |->
                     Cardinality({k \in 1..Len(edgeList) : edgeList[k][2] = c})]
      queue == SelectSeq(degKeys, LAMBDA c : inDegree[c] = 0)
  IN  kahnLoop(keys, edgeList, queue, inDegree, <<>>)

\* ------------------------------------------------------------------------
\* linear-solver: Gaussian elimination with partial pivoting over an n x n
\* system; no solution when a column has no pivot or the system is not
\* square.  Result: [solved, x].
\* ------------------------------------------------------------------------
NoSolution == [solved |-> FALSE, x |-> <<>>]

RECURSIVE gaussEliminate(_, _, _)
gaussEliminate(aug, n, col) ==
  IF col > n THEN [solved |-> TRUE, x |-> [i \in 1..n |-> aug[i][n + 1]]]
  ELSE
    LET cand == {r \in col..n : aug[r][col] # RZero} IN
    IF cand = {} THEN NoSolution
    ELSE
      LET p == CHOOSE r \in cand :
                 \A q \in cand :
                   \/ RLt(RAbs(aug[q][col]), RAbs(aug[r][col]))
                   \/ (RAbs(aug[q][col]) = RAbs(aug[r][col]) /\ r <= q)
          swapped == [aug EXCEPT ![col] = aug[p], ![p] = aug[col]]
          pivotRow == [j \in 1..(n + 1) |->
                         RDiv(swapped[col][j], swapped[col][col])]
          reduced == [i \in 1..n |->
                        IF i = col THEN pivotRow
                        ELSE [j \in 1..(n + 1) |->
                                RSub(swapped[i][j],
                                     RMul(swapped[i][col], pivotRow[j]))]]
      IN  gaussEliminate(reduced, n, col + 1)

solveLinearSystem(matrix, constants) ==
  LET n == Len(matrix) IN
  IF \E i \in 1..n : Len(matrix[i]) # n THEN NoSolution
  ELSE gaussEliminate([i \in 1..n |-> Append(matrix[i], constants[i])], n, 1)

\* ------------------------------------------------------------------------
\* Phase 4: calculateFlows / solveSCCFlow.  flow = [itemDemands,
\* recipeFacilityCounts, counted]; a Map entry that is absent reads as 0
\* (`|| 0`), counted is the key set of recipeFacilityCounts.  warned lists
\* what console.warn was given; clamped records the recipes whose solved
\* count Math.max(0, .) replaced (the code keeps no trace of them).
\* ------------------------------------------------------------------------
RECURSIVE SumSeq(_)
SumSeq(s) == IF Len(s) = 0 THEN RZero ELSE RAdd(Head(s), SumSeq(Tail(s)))

\* new Map(targets.map(t => [t.itemId, t.rate])): the last rate of an item
targetRatesMap(in) ==
  [i \in in.allIds |->
     LET hits == {k \in 1..Len(in.targets) : in.targets[k].itemId = i}
     IN  IF hits = {} THEN RZero
         ELSE RInt(in.targets[CHOOSE k \in hits : \A j \in hits : j <= k].rate)]

\* the demand map outlives the call: what the previous call accumulated is
\* still in it
InitFlowKeepingDemands(in) ==
  [itemDemands          |->
     IF plan.status = "ok"
     THEN [i \in in.allIds |-> RAdd(plan.flow.itemDemands[i], targetRatesMap(in)[i])]
     ELSE targetRatesMap(in),
   recipeFacilityCounts |-> [r \in RecipeIdsOf(in.recipes) |-> RZero],
   counted              |-> {},
   warned               |-> <<>>,
   clamped              |-> {},
   externalDemands      |-> <<>>]

\* `new Map(targets.map(...))`, `new Map()`: both maps are made by the call
InitFlow(in) ==
  [itemDemands          |-> targetRatesMap(in),
   recipeFacilityCounts |-> [r \in RecipeIdsOf(in.recipes) |-> RZero],
   counted              |-> {},
   warned               |-> <<>>,
   clamped              |-> {},
   externalDemands      |-> <<>>]

\* `rate > primaryOutputRate`: a later output replaces the best so far only
\* when its rate is strictly larger
isBetterRateOrEqual(rate, bestRate) == RLe(bestRate, rate)
isBetterRate(rate, bestRate) == RLt(bestRate, rate)

\* the recipe's dominant output: the first output of the largest rate
primaryOutput(recipe) ==
  LET RECURSIVE scan(_, _, _)
      scan(k, bestId, bestRate) ==
        IF k > Len(recipe.outputs) THEN [itemId |-> bestId, rate |-> bestRate]
        ELSE LET rate == calcRate(recipe.outputs[k].amount, recipe.craftingTime)
             IN  IF isBetterRate(rate, bestRate)
                 THEN scan(k + 1, recipe.outputs[k].itemId, rate)
                 ELSE scan(k + 1, bestId, bestRate)
  IN  scan(1, NoRecipe, RZero)

\* itemDemands.set(id, (itemDemands.get(id) || 0) + inputDemand)
accumulateOverwriting(oldDemand, inputDemand) == inputDemand
accumulate(oldDemand, inputDemand) == RAdd(oldDemand, inputDemand)

RECURSIVE addInputDemands(_, _, _, _)
addInputDemands(demands, recipe, facilityCount, k) ==
  IF k > Len(recipe.inputs) THEN demands
  ELSE addInputDemands(
         [demands EXCEPT ![recipe.inputs[k].itemId] =
            accumulate(@, RMul(calcRate(recipe.inputs[k].amount,
                                        recipe.craftingTime), facilityCount))],
         recipe, facilityCount, k + 1)

flowRecipe(in, flow, recipeId) ==
  LET recipe == RecipeById(in.recipes, recipeId)
      primary == primaryOutput(recipe)
      outputDemand == IF primary.itemId # NoRecipe
                      THEN flow.itemDemands[primary.itemId] ELSE RZero
      facilityCount == IF RLt(RZero, primary.rate)
                       THEN RDiv(outputDemand, primary.rate) ELSE RZero
  IN  [flow EXCEPT
         !.recipeFacilityCounts[recipeId] = facilityCount,
         !.counted = @ \cup {recipeId},
         !.itemDemands = addInputDemands(@, recipe, facilityCount, 1)]

\* demand placed on an SCC item from outside the SCC
sccExternalDemand(in, g, flow, scc, itemId) ==
  LET consumers == SelectSeq(g.itemConsumedBy[itemId],
                             LAMBDA r : r \notin Range(scc.recipes))
      fromConsumers ==
        SumSeq([k \in 1..Len(consumers) |->
                  LET recipe == RecipeById(in.recipes, consumers[k])
                  IN  IF HasEntry(recipe.inputs, itemId)
                      THEN RMul(calcRate(FindAmount(recipe.inputs, itemId),
                                         recipe.craftingTime),
                                flow.recipeFacilityCounts[consumers[k]])
                      ELSE RZero])
  IN  IF itemId \in g.targets
      THEN RAdd(fromConsumers, flow.itemDemands[itemId])
      ELSE fromConsumers

sccMatrix(in, scc) ==
  [i \in 1..Len(scc.items) |->
     [j \in 1..Len(scc.recipes) |->
        LET recipe == RecipeById(in.recipes, scc.recipes[j])
        IN  RSub(calcRate(FindAmount(recipe.outputs, scc.items[i]),
                          recipe.craftingTime),
                 calcRate(FindAmount(recipe.inputs, scc.items[i]),
                          recipe.craftingTime))]]

sccConsumption(in, flow, scc, inputItemId) ==
  SumSeq([j \in 1..Len(scc.recipes) |->
            LET recipe == RecipeById(in.recipes, scc.recipes[j])
            IN  IF HasEntry(recipe.inputs, inputItemId)
                THEN RMul(calcRate(FindAmount(recipe.inputs, inputItemId),
                                   recipe.craftingTime),
                          flow.recipeFacilityCounts[scc.recipes[j]])
                ELSE RZero])

\* no solution: console.warn and return, the counts of the loop stay unset
\* (the second form writes a count of 1 for every recipe of the loop)
unsolvedSCCGuessed(flow, scc) ==
  [flow EXCEPT !.warned = Append(@, <<"Cannot solve SCC", scc.id>>),
               !.recipeFacilityCounts =
                  [r \in DOMAIN @ |->
                     IF r \in Range(scc.recipes) THEN RInt(1) ELSE @[r]]]
unsolvedSCC(flow, scc) ==
  [flow EXCEPT !.warned = Append(@, <<"Cannot solve SCC", scc.id>>)]

solveSCCFlow(in, g, flowBefore, scc) ==
  LET externalDemands ==
        [i \in 1..Len(scc.items) |->
           sccExternalDemand(in, g, flowBefore, scc, scc.items[i])]
      \* externalDemands.set(itemId, demand) for the demands above zero
      flow == [flowBefore EXCEPT
                 !.externalDemands =
                    @ \o SelectSeq([i \in 1..Len(scc.items) |->
                                      [sccId |-> scc.id,
                                       itemId |-> scc.items[i],
                                       demand |-> externalDemands[i]]],
                                   LAMBDA e : RLt(RZero, e.demand))]
      n == Len(scc.items)
      m == Len(scc.recipes)
  IN
  IF \A i \in 1..n : ~RLt(RZero, externalDemands[i]) THEN flow
  ELSE IF m = 0 \/ n = 0 THEN flow
  ELSE
    LET constants == [i \in 1..n |-> RMax(RZero, externalDemands[i])]
        solution == solveLinearSystem(sccMatrix(in, scc), constants)
    IN
    IF ~solution.solved
    THEN unsolvedSCC(flow, scc)
    ELSE
      LET f1 == [flow EXCEPT
                   !.recipeFacilityCounts =
                      [r \in DOMAIN @ |->
                         IF r \in Range(scc.recipes)
                         THEN RMax(RZero, solution.x[IndexOf(scc.recipes, r)])
                         ELSE @[r]],
                   !.counted = @ \cup Range(scc.recipes),
                   !.clamped =
                      @ \cup {r \in Range(scc.recipes) :
                                RLt(solution.x[IndexOf(scc.recipes, r)], RZero)}]
      IN  [f1 EXCEPT
             !.itemDemands =
                [i \in DOMAIN @ |->
                   IF /\ i \in Range(scc.externalInputs)
                      /\ RLt(RZero, sccConsumption(in, f1, scc, i))
                   THEN RAdd(@[i], sccConsumption(in, f1, scc, i))
                   ELSE @[i]]]

RECURSIVE flowLoop(_, _, _, _, _, _)
flowLoop(in, g, sccs, order, flow, k) ==
  IF k > Len(order) THEN flow
  ELSE LET c == order[k] IN
       flowLoop(in, g, sccs, order,
         IF c[1] = "scc"
         THEN solveSCCFlow(in, g, flow,
                sccs[CHOOSE j \in 1..Len(sccs) :
                       /\ sccs[j].id = c
                       /\ \A h \in (j + 1)..Len(sccs) : sccs[h].id # c])
         ELSE IF c[2] \in Range(g.recipeNodes) THEN flowRecipe(in, flow, c[2])
         ELSE flow,
         k + 1)

calculateFlows(in, g, sccs, condensedOrder) ==
  flowLoop(in, g, sccs, Reverse(condensedOrder), InitFlow(in), 1)

\* ------------------------------------------------------------------------
\* Phase 5: convertToProductionNodeTree.  buildNode recurses along recipe
\* inputs; Fuel bounds the depth of the recursion in the model (a tree of
\* the code is never deeper than the number of items plus one).
\* ------------------------------------------------------------------------
MaxDepth == 7
Undefined == <<>>

Leaf(itemId, rate, isRaw, isTarget, isPlaceholder) ==
  [itemId |-> itemId, targetRate |-> rate, recipe |-> NoRecipe,
   facilityCount |-> RZero, isRawMaterial |-> isRaw, isTarget |-> isTarget,
   isCyclePlaceholder |-> isPlaceholder,
   cycleItemId |-> IF isPlaceholder THEN itemId ELSE NoRecipe,
   overflow |-> FALSE, dependencies |-> <<>>]

\* const newVisitedPath = new Set(visitedPath); newVisitedPath.add(itemId)
extendPathForgetting(visitedPath, itemId) == {itemId}
extendPath(visitedPath, itemId) == visitedPath \cup {itemId}

RECURSIVE buildNode(_, _, _, _, _, _, _, _)
buildNode(in, g, flow, itemId, visitedPath, isDirectTarget, parentDemand, fuel) ==
  LET demand == IF parentDemand # Undefined THEN parentDemand
                ELSE flow.itemDemands[itemId]
  IN
  IF fuel = 0
  THEN [Leaf(itemId, demand, FALSE, FALSE, FALSE) EXCEPT !.overflow = TRUE]
  ELSE IF itemId \in visitedPath
  THEN Leaf(itemId, demand, FALSE, FALSE, TRUE)
  ELSE IF itemId \notin Range(g.itemNodes) \/ itemId \in g.rawMaterials
  THEN Leaf(itemId, demand, TRUE, isDirectTarget, FALSE)
  ELSE IF g.itemProducedBy[itemId] = NoRecipe
  THEN Leaf(itemId, demand, TRUE, isDirectTarget, FALSE)
  ELSE
    LET producerRecipeId == g.itemProducedBy[itemId]
        recipe == RecipeById(in.recipes, producerRecipeId)
        facilityCount == flow.recipeFacilityCounts[producerRecipeId]
        newVisitedPath == extendPath(visitedPath, itemId)
        dependencies ==
          [k \in 1..Len(recipe.inputs) |->
             buildNode(in, g, flow, recipe.inputs[k].itemId, newVisitedPath,
                       FALSE,
                       RMul(calcRate(recipe.inputs[k].amount,
                                     recipe.craftingTime), facilityCount),
                       fuel - 1)]
        nodeTargetRate ==
          IF parentDemand # Undefined THEN parentDemand
          ELSE IF isDirectTarget THEN demand
          ELSE RMul(calcRate(FindAmount(recipe.outputs, itemId),
                             recipe.craftingTime), facilityCount)
    IN  [itemId |-> itemId, targetRate |-> nodeTargetRate,
         recipe |-> producerRecipeId, facilityCount |-> facilityCount,
         isRawMaterial |-> FALSE, isTarget |-> isDirectTarget,
         isCyclePlaceholder |-> FALSE, cycleItemId |-> NoRecipe,
         overflow |-> FALSE, dependencies |-> dependencies]

rootNodesOf(in, g, flow) ==
  [k \in 1..Len(in.targets) |->
     buildNode(in, g, flow, in.targets[k].itemId, {}, TRUE,
               RInt(in.targets[k].rate), MaxDepth)]

detectedCyclesOf(in, g, flow, sccs) ==
  [k \in 1..Len(sccs) |->
     [cycleId |-> sccs[k].id,
      involvedItemIds |-> sccs[k].items,
      breakPointItemId |-> sccs[k].items[1],
      cycleNodes |->
        [j \in 1..Len(sccs[k].recipes) |->
           LET recipeId == sccs[k].recipes[j]
               recipe == RecipeById(in.recipes, recipeId)
               primaryOutputItemId == g.recipeOutput[recipeId][1]
               facilityCount == flow.recipeFacilityCounts[recipeId]
           IN  [itemId |-> primaryOutputItemId,
                targetRate |->
                  RMul(calcRate(FindAmount(recipe.outputs, primaryOutputItemId),
                                recipe.craftingTime), facilityCount),
                recipe |-> recipeId, facilityCount |-> facilityCount,
                isRawMaterial |-> FALSE, isTarget |-> FALSE,
                dependencies |-> <<>>]],
      netOutputs |-> <<>>]]

\* ------------------------------------------------------------------------
\* calculateProductionPlan: the whole solve.  status "ok" with the plan, or
\* "error" when the solve threw.
\* ------------------------------------------------------------------------
EmptyPlan(status) ==
  [status |-> status, graph |-> <<>>, sccs |-> <<>>, order |-> <<>>,
   flow |-> <<>>, dependencyRootNodes |-> <<>>, detectedCycles |-> <<>>]

\* nothing is ever rejected for having no targets
noTargetsAccepted(in) == FALSE

\* `targets.length === 0`
noTargets(in) == Len(in.targets) = 0

calculateProductionPlan(in) ==
  IF noTargets(in) THEN EmptyPlan("error: No targets specified")
  ELSE
    LET graph == buildBipartiteGraph(in) IN
    IF graph.err # NoError THEN EmptyPlan("error: " \o graph.err)
    ELSE
      LET sccs == detectSCCs(in, graph)
          sorted == buildCondensedDAGAndSort(graph, sccs)
      IN
      IF sorted.err # NoError THEN EmptyPlan("error: " \o sorted.err)
      ELSE
        LET flow == calculateFlows(in, graph, sccs, sorted.order) IN
        [status |-> "ok", graph |-> graph, sccs |-> sccs,
         order |-> Reverse(sorted.order), flow |-> flow,
         dependencyRootNodes |-> rootNodesOf(in, graph, flow),
         detectedCycles |-> detectedCyclesOf(in, graph, flow, sccs)]

\* ------------------------------------------------------------------------
\* The inputs of a solve: catalogs over the items A..D with one facility.
\* The amounts a[1..3] range over 1..MaxAmount; a target rate is a multiple
\* of 5 up to 5 * MaxRate, and a single target may also carry the rates 0
\* and -5, which calculateProductionPlan accepts like any other.
\* ------------------------------------------------------------------------
MaxAmount == 2
MaxRate == 2
MaxCalls == 2

Items == {"A", "B", "C", "D"}
Facilities == {"F1"}

Catalogs(a) ==
  { \* chain  A <- B <- C ; one R1 facility makes 5 A per minute when a[2] = 1
    <<Recipe("R1", <<Entry("B", a[1])>>, <<Entry("A", a[2])>>, 12),
      Recipe("R2", <<Entry("C", 1)>>, <<Entry("B", 1)>>, 60)>>,
    \* A and B share the intermediate C
    <<Recipe("R1", <<Entry("C", a[1])>>, <<Entry("A", 1)>>, 60),
      Recipe("R2", <<Entry("C", a[2])>>, <<Entry("B", 1)>>, 60),
      Recipe("R3", <<Entry("D", 2)>>, <<Entry("C", 1)>>, 30)>>,
    \* mutual dependency A <-> B
    <<Recipe("R1", <<Entry("B", a[1])>>, <<Entry("A", a[2])>>, 60),
      Recipe("R2", <<Entry("A", 1)>>, <<Entry("B", 1)>>, 60)>>,
    \* loop A <-> B fed by D, C made from A outside the loop; D is forced
    \* raw although R4 makes it
    <<Recipe("R1", <<Entry("B", 1)>>, <<Entry("A", a[1])>>, 60),
      Recipe("R2", <<Entry("A", 1), Entry("D", a[2])>>, <<Entry("B", 1)>>, 60),
      Recipe("R3", <<Entry("A", 1)>>, <<Entry("C", 1)>>, 60),
      Recipe("R4", <<Entry("C", 1)>>, <<Entry("D", 1)>>, 60)>>,
    \* a recipe with two outputs B and C, both consumed by the recipe of A
    <<Recipe("R1", <<Entry("D", 1)>>,
                   <<Entry("B", a[1]), Entry("C", a[2])>>, 60),
      Recipe("R2", <<Entry("B", 2), Entry("C", 1)>>,
                   <<Entry("A", 1)>>, 60)>>,
    \* two recipes for A, the first closing a loop through B
    <<Recipe("R1", <<Entry("B", a[1])>>, <<Entry("A", 1)>>, 60),
      Recipe("R2", <<Entry("A", a[2])>>, <<Entry("B", 1)>>, 60),
      Recipe("R3", <<Entry("C", 1)>>, <<Entry("A", 1)>>, 60)>>,
    \* an item that needs itself, with an alternative that does not
    <<Recipe("R1", <<Entry("A", a[1]), Entry("B", 1)>>,
                   <<Entry("A", a[2])>>, 60),
      Recipe("R2", <<Entry("C", 1)>>, <<Entry("B", 1)>>, 60),
      Recipe("R3", <<Entry("C", 1)>>, <<Entry("A", 1)>>, 60)>>,
    \* a recipe without inputs
    <<Recipe("R1", <<>>, <<Entry("A", a[1])>>, 60),
      Recipe("R2", <<Entry("A", a[2])>>, <<Entry("B", 1)>>, 60)>>,
    \* a loop A <-> C through R1, which also makes B
    <<Recipe("R1", <<Entry("A", 1)>>,
                   <<Entry("B", a[1]), Entry("C", 2)>>, 60),
      Recipe("R2", <<Entry("C", a[2])>>, <<Entry("A", 1)>>, 60),
      Recipe("R3", <<Entry("D", 1)>>, <<Entry("C", 1)>>, 60)>>,
    \* the same recipes, C being made by R3: R1 makes C only as a by-product
    <<Recipe("R3", <<Entry("D", 1)>>, <<Entry("C", 1)>>, 60),
      Recipe("R1", <<Entry("A", 1)>>,
                   <<Entry("B", a[1]), Entry("C", 2)>>, 60),
      Recipe("R2", <<Entry("C", a[2])>>, <<Entry("A", 1)>>, 60)>> }

AmountVectors == [1..2 -> 1..MaxAmount]
AllCatalogs == UNION {Catalogs(a) : a \in AmountVectors}

Target(i, r) == [itemId |-> i, rate |-> r]
PositiveRates == {5 * r : r \in 1..MaxRate}
AnyRates == PositiveRates \cup {0, -5}
TargetLists ==
  {<<>>}
  \cup {<<Target(i, r)>> : i \in Items, r \in AnyRates}
  \cup {t \in {<<Target(i, 5), Target(j, q)>> :
                 i \in Items, j \in Items, q \in PositiveRates} :
          t[1].itemId # t[2].itemId}

RawSets == {{}, {"A"}, {"B"}, {"C"}}

\* <<recipeOverrides, recipeSelector>>
NoOverrides == [i \in {} |-> NoRecipe]
Policies ==
  { <<NoOverrides, "default">>,
    <<NoOverrides, "smart">>,
    <<[i \in {"A"} |-> "R3"], "default">> }

\* <<items, facilities>> of a call whose catalog lacks the item C or the
\* facility F1 that the recipes name
IncompleteCatalogs == {<<Items \ {"C"}, Facilities>>, <<Items, {}>>}

Inputs ==
  {[targets |-> t, items |-> Items, allIds |-> Items, recipes |-> c,
    facilities |-> Facilities, recipeOverrides |-> p[1],
    recipeSelector |-> p[2], manualRawMaterials |-> m] :
     t \in TargetLists, c \in AllCatalogs, m \in RawSets, p \in Policies}
  \cup
  {[targets |-> <<Target(i, 5)>>, items |-> h[1], allIds |-> Items,
    recipes |-> c, facilities |-> h[2], recipeOverrides |-> p[1],
    recipeSelector |-> p[2], manualRawMaterials |-> m] :
     i \in Items, c \in AllCatalogs, m \in RawSets, p \in Policies,
     h \in IncompleteCatalogs}

\* ------------------------------------------------------------------------
\* Capacity pool (CapacityPoolManager of ../flow/capacity-pool): the
\* discrete facility instances of a production step and what is still
\* unallocated of each.
\* ------------------------------------------------------------------------
Floor(r) == r[1] \div r[2]
Ceil(r) == 0 - ((0 - r[1]) \div r[2])
RMin(a, b) == IF RLt(b, a) THEN b ELSE a

RECURSIVE RSum(_)
RSum(s) == IF Len(s) = 0 THEN RZero ELSE RAdd(s[1], RSum(Tail(s)))

\* `${itemId}__${recipeId ?? "raw"}__${raw|prod}`
createFlowNodeKey(node) ==
  <<node.itemId,
    IF node.recipe = NoRecipe THEN "raw" ELSE node.recipe,
    IF node.isRawMaterial THEN "raw" ELSE "prod">>

\* what one facility of the node's recipe makes of the node's item per minute
fullRateOf(recipes, node) ==
  IF node.recipe = NoRecipe THEN RZero
  ELSE LET recipe == RecipeById(recipes, node.recipe)
       IN  calcRate(FindAmount(recipe.outputs, node.itemId),
                    recipe.craftingTime)

\* the last instance carries the fractional remainder of the count
lastInstanceFull(c, fullRate) == fullRate
lastInstanceRate(c, fullRate) ==
  LET remainder == RSub(c, RInt(Floor(c)))
  IN  IF remainder = RZero THEN fullRate ELSE RMul(remainder, fullRate)

\* ids of flow nodes: a facility instance of a pool, a raw-material node, a
\* target sink
FacilityId(key, index) == [kind |-> "facility", key |-> key, index |-> index]

createInstances(c, fullRate, key) ==
  LET n == IF Ceil(c) > 0 THEN Ceil(c) ELSE 0
  IN  [i \in 1..n |->
         LET rate == IF i < n THEN fullRate ELSE lastInstanceRate(c, fullRate)
         IN  [facilityId |-> FacilityId(key, i - 1), facilityIndex |-> i - 1,
              maxOutputRate |-> fullRate, actualOutputRate |-> rate,
              remaining |-> rate]]

EmptyPoolManager == [pools |-> <<>>, processed |-> {}]

PoolKeys(pm) == {pm.pools[k].key : k \in 1..Len(pm.pools)}
hasPool(pm, key) == key \in PoolKeys(pm)
PoolAt(pm, key) == CHOOSE k \in 1..Len(pm.pools) : pm.pools[k].key = key
getFacilityInstances(pm, key) ==
  IF hasPool(pm, key) THEN pm.pools[PoolAt(pm, key)].instances ELSE <<>>
\* (the second form forgets what was processed)
isProcessedForgotten(pm, facilityId) == FALSE
isProcessed(pm, facilityId) == facilityId \in pm.processed
markProcessed(pm, facilityId) ==
  [pm EXCEPT !.processed = @ \cup {facilityId}]

createPool(recipes, pm, node, key) ==
  LET fullRate == fullRateOf(recipes, node)
      pool == [key |-> key, facilityCount |-> node.facilityCount,
               fullRate |-> fullRate,
               instances |->
                 createInstances(node.facilityCount, fullRate, key)]
  IN  IF hasPool(pm, key)
      THEN [pm EXCEPT !.pools[PoolAt(pm, key)] = pool]
      ELSE [pm EXCEPT !.pools = Append(@, pool)]

\* what an allocation leaves of an instance
consumeNothing(remaining, amount) == remaining
consume(remaining, amount) == RSub(remaining, amount)

\* greedy, in index order, from instance k on
RECURSIVE allocateFrom(_, _, _)
allocateFrom(instances, k, demandRate) ==
  IF k > Len(instances) \/ ~RLt(RZero, demandRate)
  THEN [instances |-> instances, allocations |-> <<>>]
  ELSE
    LET amount == RMin(instances[k].remaining, demandRate)
    IN  IF ~RLt(RZero, amount)
        THEN allocateFrom(instances, k + 1, demandRate)
        ELSE
          LET rest ==
                allocateFrom(
                  [instances EXCEPT ![k].remaining = consume(@, amount)],
                  k + 1, RSub(demandRate, amount))
          IN  [instances |-> rest.instances,
               allocations |->
                 <<[sourceNodeId |-> instances[k].facilityId,
                    allocatedAmount |-> amount]>> \o rest.allocations]

allocate(pm, key, demandRate) ==
  IF ~hasPool(pm, key)
  THEN [pm |-> pm, allocations |-> <<>>]
  ELSE
    LET r == allocateFrom(getFacilityInstances(pm, key), 1, demandRate)
    IN  [pm |-> [pm EXCEPT !.pools[PoolAt(pm, key)].instances = r.instances],
         allocations |-> r.allocations]

\* ------------------------------------------------------------------------
\* Flow mapping, separated mode (components/mappers/separated-mapper.ts):
\* one flow node per facility instance, one edge per allocation.
\* ------------------------------------------------------------------------
\* nodeMap of aggregateProductionNodes: an insertion-ordered map from key to
\* {node, totalRate, totalFacilityCount}
AggregatedAt(nodeMap, key) ==
  CHOOSE k \in 1..Len(nodeMap) : nodeMap[k].key = key
AggregatedKeys(nodeMap) == {nodeMap[k].key : k \in 1..Len(nodeMap)}

RECURSIVE collect(_, _)
RECURSIVE collectEach(_, _, _)
collect(nodeMap, node) ==
  IF node.isCyclePlaceholder
  THEN collectEach(nodeMap, node.dependencies, 1)
  ELSE
    LET key == createFlowNodeKey(node)
        merged ==
          IF key \in AggregatedKeys(nodeMap)
          THEN LET k == AggregatedAt(nodeMap, key)
               IN  [nodeMap EXCEPT
                      ![k].totalRate = RAdd(@, node.targetRate),
                      ![k].totalFacilityCount = RAdd(@, node.facilityCount),
                      ![k].node.isTarget = @ \/ node.isTarget]
          ELSE Append(nodeMap,
                      [key |-> key, node |-> node,
                       totalRate |-> node.targetRate,
                       totalFacilityCount |-> node.facilityCount])
    IN  collectEach(merged, node.dependencies, 1)
collectEach(nodeMap, nodes, k) ==
  IF k > Len(nodes) THEN nodeMap
  ELSE collectEach(collect(nodeMap, nodes[k]), nodes, k + 1)

aggregateProductionNodes(rootNodes) == collectEach(<<>>, rootNodes, 1)

collectProducedItems(nodeMap) ==
  {nodeMap[k].node.itemId :
     k \in {j \in 1..Len(nodeMap) :
              /\ ~nodeMap[j].node.isRawMaterial
              /\ nodeMap[j].node.recipe # NoRecipe}}

\* (the second form misses the placeholders)
isRawButProduced(node, producedItemIds) ==
  node.isRawMaterial /\ node.itemId \in producedItemIds
isCircularDependency(node, producedItemIds) ==
  \/ node.isCyclePlaceholder
  \/ node.isRawMaterial /\ node.itemId \in producedItemIds

Null == <<>>
findProductionKeyForItem(itemId, nodeMap) ==
  LET hits == {k \in 1..Len(nodeMap) :
                 /\ ~nodeMap[k].node.isRawMaterial
                 /\ nodeMap[k].node.itemId = itemId
                 /\ nodeMap[k].node.recipe # NoRecipe}
  IN  IF hits = {} THEN Null
      ELSE nodeMap[CHOOSE k \in hits : \A j \in hits : k <= j].key

\* (input.amount / output.amount) * outputRate, null without the input or
\* the output
calculateDemandRate(recipe, inputItemId, outputItemId, outputRate) ==
  IF ~HasEntry(recipe.inputs, inputItemId)
       \/ ~HasEntry(recipe.outputs, outputItemId)
  THEN Null
  ELSE RMul(Rat(FindAmount(recipe.inputs, inputItemId),
                FindAmount(recipe.outputs, outputItemId)),
            outputRate)

createFlowNodeId(nodeKey) == [kind |-> "node", key |-> nodeKey, index |-> 0]
createTargetSinkId(itemId) ==
  [kind |-> "target-sink", key |-> <<itemId, "", "">>, index |-> 0]
createEdge(source, target, rate, itemId, direction) ==
  [source |-> source, target |-> target, rate |-> rate, itemId |-> itemId,
   direction |-> direction]

EmptyFlowGraph ==
  [mapped |-> FALSE, poolManager |-> EmptyPoolManager, aggregated |-> <<>>,
   rawMaterialNodes |-> {}, flowNodes |-> <<>>, targetSinkNodes |-> <<>>,
   edges |-> <<>>]

ensureRawMaterialNode(st, itemId, nodeKey, totalDemand, node) ==
  IF itemId \in st.rawMaterialNodes THEN st
  ELSE [st EXCEPT
          !.rawMaterialNodes = @ \cup {itemId},
          !.flowNodes =
            Append(@, [id |-> createFlowNodeId(nodeKey), itemId |-> itemId,
                       recipe |-> NoRecipe, targetRate |-> totalDemand])]

\* the mapper's state is evaluated after each step, before the next step
\* takes it
Evaluated(st) == st = st

RECURSIVE allocateUpstream(_, _, _, _, _)
RECURSIVE allocateFromPool(_, _, _, _, _, _, _)
RECURSIVE forEachAllocation(_, _, _, _, _, _, _, _)
RECURSIVE forEachDependency(_, _, _, _, _, _)

allocateUpstream(ctx, st, node, demandRate, consumerFacilityId) ==
  IF isCircularDependency(node, ctx.producedItemIds)
  THEN
    LET productionKey == findProductionKeyForItem(node.itemId, ctx.nodeMap)
    IN  IF productionKey = Null THEN st
        ELSE allocateFromPool(
               ctx, st, productionKey,
               ctx.nodeMap[AggregatedAt(ctx.nodeMap, productionKey)].node,
               demandRate, consumerFacilityId, "backward")
  ELSE IF node.isRawMaterial
  THEN
    LET nodeKey == createFlowNodeKey(node)
        totalDemand ==
          IF nodeKey \in AggregatedKeys(ctx.nodeMap)
          THEN ctx.nodeMap[AggregatedAt(ctx.nodeMap, nodeKey)].totalRate
          ELSE RZero
        st1 == ensureRawMaterialNode(st, node.itemId, nodeKey, totalDemand,
                                     node)
    IN  [st1 EXCEPT
           !.edges = Append(@, createEdge(createFlowNodeId(nodeKey),
                                          consumerFacilityId, demandRate,
                                          node.itemId, "forward"))]
  ELSE allocateFromPool(ctx, st, createFlowNodeKey(node), node, demandRate,
                        consumerFacilityId, "forward")

allocateFromPool(ctx, st, nodeKey, node, demandRate, consumerFacilityId, edgeDirection) ==
  LET pm1 == IF hasPool(st.poolManager, nodeKey) THEN st.poolManager
             ELSE createPool(ctx.recipes, st.poolManager, node, nodeKey)
      r == allocate(pm1, nodeKey, demandRate)
  IN  forEachAllocation(ctx, [st EXCEPT !.poolManager = r.pm], nodeKey, node,
                        r.allocations, 1, consumerFacilityId, edgeDirection)

forEachAllocation(ctx, st, nodeKey, node, allocations, k, consumerFacilityId, edgeDirection) ==
  IF k > Len(allocations) THEN st
  ELSE
    LET allocation == allocations[k]
        st1 == [st EXCEPT
                  !.edges =
                    Append(@, createEdge(allocation.sourceNodeId,
                                         consumerFacilityId,
                                         allocation.allocatedAmount,
                                         node.itemId, edgeDirection))]
        st2 ==
          IF isProcessed(st1.poolManager, allocation.sourceNodeId) THEN st1
          ELSE
            LET instances == getFacilityInstances(st1.poolManager, nodeKey)
                facilityInstance ==
                  instances[CHOOSE j \in 1..Len(instances) :
                              instances[j].facilityId
                                = allocation.sourceNodeId]
                st3 == [st1 EXCEPT
                          !.poolManager =
                            markProcessed(@, allocation.sourceNodeId),
                          !.flowNodes =
                            Append(@, [id |-> allocation.sourceNodeId,
                                       itemId |-> node.itemId,
                                       recipe |-> node.recipe,
                                       targetRate |->
                                         facilityInstance.actualOutputRate])]
            IN  IF node.recipe = NoRecipe THEN st3
                ELSE forEachDependency(ctx, st3, node, 1,
                                       facilityInstance.actualOutputRate,
                                       allocation.sourceNodeId)
    IN  IF Evaluated(st2)
        THEN forEachAllocation(ctx, st2, nodeKey, node, allocations, k + 1,
                               consumerFacilityId, edgeDirection)
        ELSE st2

\* node.dependencies.forEach: what the consumer making outputRate of
\* node's item needs of each dependency
forEachDependency(ctx, st, node, k, outputRate, consumerFacilityId) ==
  IF k > Len(node.dependencies) THEN st
  ELSE
    LET dep == node.dependencies[k]
        depDemandRate ==
          calculateDemandRate(RecipeById(ctx.recipes, node.recipe),
                              dep.itemId, node.itemId, outputRate)
        st1 == IF depDemandRate = Null THEN st
               ELSE allocateUpstream(ctx, st, dep, depDemandRate,
                                     consumerFacilityId)
    IN  IF Evaluated(st1)
        THEN forEachDependency(ctx, st1, node, k + 1, outputRate,
                               consumerFacilityId)
        ELSE st1

\* aggregatedNodes.forEach(createPool) for the steps that are not raw
RECURSIVE createPools(_, _, _, _)
createPools(recipes, pm, nodeMap, k) ==
  IF k > Len(nodeMap) THEN pm
  ELSE
    LET data == nodeMap[k]
        pm1 == IF data.node.isRawMaterial THEN pm
               ELSE createPool(recipes, pm,
                               [data.node EXCEPT
                                  !.facilityCount = data.totalFacilityCount,
                                  !.targetRate = data.totalRate],
                               data.key)
    IN  createPools(recipes, pm1, nodeMap, k + 1)

\* the facilities of a root that is not a target
RECURSIVE forEachRootInstance(_, _, _, _, _)
forEachRootInstance(ctx, st, rootNode, instances, k) ==
  IF k > Len(instances) THEN st
  ELSE
    LET facilityInstance == instances[k]
        st1 ==
          IF isProcessed(st.poolManager, facilityInstance.facilityId) THEN st
          ELSE
            LET st2 == [st EXCEPT
                          !.poolManager =
                            markProcessed(@, facilityInstance.facilityId),
                          !.flowNodes =
                            Append(@, [id |-> facilityInstance.facilityId,
                                       itemId |-> rootNode.itemId,
                                       recipe |-> rootNode.recipe,
                                       targetRate |->
                                         facilityInstance.actualOutputRate])]
            IN  IF rootNode.recipe = NoRecipe THEN st2
                ELSE forEachDependency(ctx, st2, rootNode, 1,
                                       facilityInstance.actualOutputRate,
                                       facilityInstance.facilityId)
    IN  forEachRootInstance(ctx, st1, rootNode, instances, k + 1)

RECURSIVE forEachRoot(_, _, _, _)
forEachRoot(ctx, st, rootNodes, k) ==
  IF k > Len(rootNodes) THEN st
  ELSE
    LET rootNode == rootNodes[k]
        key == createFlowNodeKey(rootNode)
        st1 ==
          IF rootNode.isTarget /\ ~rootNode.isRawMaterial THEN st
          ELSE IF rootNode.isRawMaterial
          THEN ensureRawMaterialNode(
                 st, rootNode.itemId, key,
                 IF key \in AggregatedKeys(ctx.nodeMap)
                 THEN ctx.nodeMap[AggregatedAt(ctx.nodeMap, key)].totalRate
                 ELSE rootNode.targetRate,
                 rootNode)
          ELSE forEachRootInstance(
                 ctx, st, rootNode,
                 getFacilityInstances(st.poolManager, key), 1)
    IN  forEachRoot(ctx, st1, rootNodes, k + 1)

\* one sink per aggregated target; a produced target's sink takes the
\* inputs of its recipe at the target's total rate
RECURSIVE forEachTarget(_, _, _)
forEachTarget(ctx, st, k) ==
  IF k > Len(ctx.nodeMap) THEN st
  ELSE
    LET data == ctx.nodeMap[k]
        targetSinkId == createTargetSinkId(data.node.itemId)
        st1 ==
          IF ~data.node.isTarget THEN st
          ELSE
            LET st2 == [st EXCEPT
                          !.targetSinkNodes =
                            Append(@, [id |-> targetSinkId,
                                       itemId |-> data.node.itemId,
                                       recipe |-> data.node.recipe,
                                       isRawMaterial |->
                                         data.node.isRawMaterial,
                                       targetRate |-> data.totalRate])]
            IN  IF data.node.isRawMaterial \/ data.node.recipe = NoRecipe
                THEN st2
                ELSE forEachDependency(ctx, st2, data.node, 1,
                                       data.totalRate, targetSinkId)
    IN  IF Evaluated(st1) THEN forEachTarget(ctx, st1, k + 1) ELSE st1

mapPlanToFlowSeparated(rootNodes, recipes) ==
  LET aggregatedNodes == aggregateProductionNodes(rootNodes)
      ctx == [recipes |-> recipes, nodeMap |-> aggregatedNodes,
              producedItemIds |-> collectProducedItems(aggregatedNodes)]
      st0 == [EmptyFlowGraph EXCEPT
                !.mapped = TRUE,
                !.aggregated = aggregatedNodes,
                !.poolManager =
                  createPools(recipes, EmptyPoolManager, aggregatedNodes, 1)]
  IN  forEachTarget(ctx, forEachRoot(ctx, st0, rootNodes, 1), 1)

\* ------------------------------------------------------------------------
\* State: the arguments and the result of the last call, the result of the
\* call before it, the flow graph mapped from the last result, and a
\* capacity pool manager with the log of the allocate calls made on it.
\* ------------------------------------------------------------------------
NoPlan == EmptyPlan("none")

\* ------------------------------------------------------------------------
\* The flow view: ProductionDependencyTree
\* (src/src/components/flow/ProductionDependencyTree.tsx).  The plan prop is
\* taken by what the mapper makes of it: a structure (the ids of the flow
\* nodes and the pairs they are connected in) and the rate written on its
\* nodes and edges.  A position is the place the layout of one graph gives
\* one node.
\* ------------------------------------------------------------------------
MaxPending == 2

Structures == {"chain2", "chain3"}
ViewRates == {5, 10}
NodeIdsOf(structure) ==
  IF structure = "chain2" THEN {"n1", "n2"} ELSE {"n1", "n2", "n3"}
LinksOf(structure) ==
  IF structure = "chain2" THEN {<<"n1", "n2">>}
  ELSE {<<"n1", "n2">>, <<"n2", "n3">>}

NullPlan == [structure |-> "none", rate |-> 0]
ViewPlans == [structure : Structures, rate : ViewRates]

Unplaced == [graph |-> {}, node |-> ""]
Placed(graph, id) == [graph |-> graph, node |-> id]

\* mapPlanToFlowSeparated(plan.dependencyRootNodes, items, facilities): the
\* nodes come without a place
flowDataOf(p) ==
  [nodes |-> {[id |-> i, rate |-> p.rate, position |-> Unplaced] :
                i \in NodeIdsOf(p.structure)},
   edges |-> {[source |-> l[1], target |-> l[2], rate |-> p.rate,
               styled |-> FALSE] : l \in LinksOf(p.structure)}]

\* the sorted node ids and the sorted connections, joined
generateGraphSignature(nodes, edges) ==
  [nodes |-> {n.id : n \in nodes},
   edges |-> {<<e.source, e.target>> : e \in edges}]
EmptySignature == [nodes |-> {}, edges |-> {}]

applyEdgeStyling(edges, nodes) == {[e EXCEPT !.styled = TRUE] : e \in edges}

\* nodePositionsRef: a map from node ids to positions
SavedIds(positions) == {s.id : s \in positions}
SavedPosition(positions, id) ==
  (CHOOSE s \in positions : s.id = id).position
SavePositions(positions, nodes) ==
  {s \in positions : s.id \notin {n.id : n \in nodes}}
  \cup {[id |-> n.id, position |-> n.position] : n \in nodes}

\* getLayoutedElements: every node gets the place ELK gives it in the graph
\* of the nodes handed in; when ELK fails the nodes come back as they were
getLayoutedElements(nodes, edges, ok) ==
  IF ok
  THEN [nodes |-> {[n EXCEPT !.position = Placed({m.id : m \in nodes}, n.id)] :
                     n \in nodes},
        edges |-> edges]
  ELSE [nodes |-> nodes, edges |-> edges]

\* the component after its first render, without a plan: effectDue says that
\* setNodes and setEdges were called since the layout effect last ran;
\* pending holds the layouts that were started and have not come back
InitView ==
  [plan |-> NullPlan, nodes |-> {}, edges |-> {}, layoutDoneRef |-> FALSE,
   prevSignatureRef |-> EmptySignature, nodePositionsRef |-> {},
   effectDue |-> FALSE, pending |-> <<>>]

\* the first effect, for a plan without roots
clearView(v) ==
  [v EXCEPT !.nodes = {}, !.edges = {},
            !.prevSignatureRef = EmptySignature, !.nodePositionsRef = {}]

\* the first effect, for a plan with roots
showPlan(v, p) ==
  LET flowData == flowDataOf(p)
      newSignature == generateGraphSignature(flowData.nodes, flowData.edges)
      isStructuralChange == newSignature # v.prevSignatureRef
      nodesWithPositions ==
        {IF n.id \in SavedIds(v.nodePositionsRef)
         THEN [n EXCEPT !.position = SavedPosition(v.nodePositionsRef, n.id)]
         ELSE n : n \in flowData.nodes}
  IN  IF isStructuralChange
      THEN [v EXCEPT !.nodes = flowData.nodes, !.edges = flowData.edges,
                     !.layoutDoneRef = FALSE,
                     !.prevSignatureRef = newSignature]
      ELSE [v EXCEPT !.nodes = nodesWithPositions,
                     !.edges = applyEdgeStyling(flowData.edges,
                                                nodesWithPositions)]

\* the continuation of the layout effect after `await getLayoutedElements`
layoutCompleted(v, started, ok) ==
  LET layouted == getLayoutedElements(started.nodes, started.edges, ok)
      styledEdges == applyEdgeStyling(layouted.edges, layouted.nodes)
  IN  [v EXCEPT !.nodePositionsRef = SavePositions(@, layouted.nodes),
                !.nodes = layouted.nodes,
                !.edges = styledEdges]

RemoveAt(s, k) == SubSeq(s, 1, k - 1) \o SubSeq(s, k + 1, Len(s))

Init ==
  /\ args = <<>>
  /\ plan = NoPlan
  /\ prevPlan = NoPlan
  /\ calls = 0
  /\ flowGraph = EmptyFlowGraph
  /\ poolManager = EmptyPoolManager
  /\ poolLog = <<>>
  /\ view = InitView

Solve ==
  /\ calls = 0
  /\ \E a \in Inputs :
       /\ args' = a
       /\ plan' = calculateProductionPlan(a)
  /\ prevPlan' = plan
  /\ calls' = 1
  /\ UNCHANGED <<flowGraph, poolManager, poolLog, view>>

SolveAgain ==
  /\ calls >= 1
  /\ calls < MaxCalls
  /\ plan' = calculateProductionPlan(args)
  /\ prevPlan' = plan
  /\ calls' = calls + 1
  /\ UNCHANGED <<args, flowGraph, poolManager, poolLog, view>>

Next == Solve \/ SolveAgain

Spec == Init /\ [][Next]_vars

\* the result of a solve handed to the flow view
MapFlow ==
  /\ calls >= 1
  /\ plan.status = "ok"
  /\ ~flowGraph.mapped
  /\ flowGraph' = mapPlanToFlowSeparated(plan.dependencyRootNodes, args.recipes)
  /\ UNCHANGED <<args, plan, prevPlan, calls, poolManager, poolLog, view>>

FlowNext == Solve \/ MapFlow

FlowSpec == Init /\ [][FlowNext]_vars

\* a pool manager on its own: one pool is created, then allocate is called
\* on it with any demands
MaxCount == 3
MaxDemand == 2
MaxAllocs == 3
PoolCounts == {Rat(k, 2) : k \in 0..(2 * MaxCount)}
PoolDemands == {Rat(k, 2) : k \in 0..(2 * MaxDemand)}
PoolRecipes(a) == <<Recipe("R1", <<Entry("B", 1)>>, <<Entry("A", a)>>, 60)>>
PoolNode(c) ==
  [Leaf("A", RZero, FALSE, FALSE, FALSE) EXCEPT
     !.recipe = "R1", !.facilityCount = c]
PoolKey == createFlowNodeKey(PoolNode(RZero))

CreatePool ==
  /\ poolManager.pools = <<>>
  /\ \E c \in PoolCounts, a \in 1..MaxAmount :
       poolManager' = createPool(PoolRecipes(a), poolManager, PoolNode(c),
                                 PoolKey)
  /\ UNCHANGED <<args, plan, prevPlan, calls, flowGraph, poolLog, view>>

Allocate ==
  /\ hasPool(poolManager, PoolKey)
  /\ Len(poolLog) < MaxAllocs
  /\ \E demandRate \in PoolDemands :
       LET r == allocate(poolManager, PoolKey, demandRate)
       IN  /\ poolManager' = r.pm
           /\ poolLog' = Append(poolLog, [demandRate |-> demandRate,
                                          allocations |-> r.allocations])
  /\ UNCHANGED <<args, plan, prevPlan, calls, flowGraph, view>>

PoolNext == CreatePool \/ Allocate

PoolSpec == Init /\ [][PoolNext]_vars

\* the plan prop changes, and the first effect runs
PlanChange ==
  /\ \E p \in ViewPlans \cup {NullPlan} :
       /\ p # view.plan
       /\ Len(view.pending) < MaxPending
       /\ LET v == IF p = NullPlan THEN clearView(view) ELSE showPlan(view, p)
          IN  view' = [v EXCEPT !.plan = p, !.effectDue = TRUE]
  /\ UNCHANGED <<args, plan, prevPlan, calls, flowGraph, poolManager, poolLog>>

\* the layout effect runs after a render in which nodes or edges changed;
\* nodesInitialized is false while there are no nodes
LayoutEffect ==
  /\ view.effectDue
  /\ view' =
       IF view.nodes = {} \/ view.layoutDoneRef
       THEN [view EXCEPT !.effectDue = FALSE]
       ELSE [view EXCEPT
               !.effectDue = FALSE,
               !.layoutDoneRef = TRUE,
               !.pending = Append(@, [nodes |-> view.nodes,
                                      edges |-> view.edges])]
  /\ UNCHANGED <<args, plan, prevPlan, calls, flowGraph, poolManager, poolLog>>

\* one of the layouts that were started comes back
LayoutDone ==
  /\ \E k \in 1..Len(view.pending), ok \in BOOLEAN :
       LET v == layoutCompleted(view, view.pending[k], ok)
       IN  view' = [v EXCEPT !.pending = RemoveAt(@, k), !.effectDue = TRUE]
  /\ UNCHANGED <<args, plan, prevPlan, calls, flowGraph, poolManager, poolLog>>

LayoutNext == PlanChange \/ LayoutEffect \/ LayoutDone

LayoutSpec == Init /\ [][LayoutNext]_vars

\* ------------------------------------------------------------------------
\* Vocabulary of the properties, read off the state of the last solve.
\* ------------------------------------------------------------------------
Solved == plan.status = "ok"
SelectedRecipes == Range(plan.graph.recipeNodes)
LoopRecipes == UNION {Range(plan.sccs[k].recipes) : k \in 1..Len(plan.sccs)}
LoopItems == UNION {Range(plan.sccs[k].items) : k \in 1..Len(plan.sccs)}
CountOf(r) == plan.flow.recipeFacilityCounts[r]
DemandOf(i) == plan.flow.itemDemands[i]
RecipeOf(r) == RecipeById(args.recipes, r)
TargetItems == {args.targets[k].itemId : k \in 1..Len(args.targets)}
TargetRateOf(i) ==
  IF i \in TargetItems
  THEN RInt(args.targets[CHOOSE k \in 1..Len(args.targets) :
                           args.targets[k].itemId = i].rate)
  ELSE RZero

OutputRate(recipe, k) == calcRate(recipe.outputs[k].amount, recipe.craftingTime)
InputRate(recipe, k) == calcRate(recipe.inputs[k].amount, recipe.craftingTime)

\* the output of the largest per-minute rate, the first one on ties
DominantIndex(recipe) ==
  CHOOSE k \in 1..Len(recipe.outputs) :
    /\ \A j \in 1..Len(recipe.outputs) :
         RLe(OutputRate(recipe, j), OutputRate(recipe, k))
    /\ \A j \in 1..(k - 1) :
         RLt(OutputRate(recipe, j), OutputRate(recipe, k))

\* what the selected recipes consume of an item, per minute
ConsumptionOf(i) ==
  LET rs == plan.graph.recipeNodes IN
  SumSeq([a \in 1..Len(rs) |->
            SumSeq([b \in 1..Len(RecipeOf(rs[a]).inputs) |->
                      IF RecipeOf(rs[a]).inputs[b].itemId = i
                      THEN RMul(InputRate(RecipeOf(rs[a]), b), CountOf(rs[a]))
                      ELSE RZero])])

\* C1: the facility count of every selected recipe outside the loops is the
\* final demand of its dominant output (largest rate, first on ties)
\* divided by that output's rate per facility.
C1_FacilityCount ==
  Solved =>
    \A r \in SelectedRecipes \ LoopRecipes :
      LET k == DominantIndex(RecipeOf(r)) IN
      CountOf(r) = RDiv(DemandOf(RecipeOf(r).outputs[k].itemId),
                        OutputRate(RecipeOf(r), k))

\* target A at 10/min, one facility yields 5 A/min: two facilities
C1_Witness ==
  /\ Solved
  /\ args.targets = <<Target("A", 10)>>
  /\ "R1" \in SelectedRecipes \ LoopRecipes
  /\ RecipeOf("R1").outputs = <<Entry("A", 1)>>
  /\ OutputRate(RecipeOf("R1"), 1) = RInt(5)
  /\ CountOf("R1") = RInt(2)

\* C2: the demand of every item outside the loops is its target rate plus
\* what all selected recipes consume of it at their facility counts.
C2_DemandAccumulates ==
  Solved =>
    \A i \in Items \ LoopItems :
      DemandOf(i) = RAdd(TargetRateOf(i), ConsumptionOf(i))

\* two targets share C: one entry for C's recipe covers both demands
C2_Witness ==
  /\ Solved
  /\ TargetItems = {"A", "B"}
  /\ plan.graph.itemProducedBy["A"] = "R1"
  /\ plan.graph.itemProducedBy["B"] = "R2"
  /\ plan.graph.itemProducedBy["C"] = "R3"
  /\ HasEntry(RecipeOf("R1").inputs, "C")
  /\ HasEntry(RecipeOf("R2").inputs, "C")
  /\ RLt(RZero, CountOf("R1")) /\ RLt(RZero, CountOf("R2"))
  /\ DemandOf("C") =
       RAdd(RMul(InputRate(RecipeOf("R1"), 1), CountOf("R1")),
            RMul(InputRate(RecipeOf("R2"), 1), CountOf("R2")))
  /\ CountOf("R3") = RDiv(DemandOf("C"), OutputRate(RecipeOf("R3"), 1))

\* every node of a tree with the items of its ancestors, root first
RECURSIVE TreeNodes(_, _)
TreeNodes(node, ancestors) ==
  {[node |-> node, ancestors |-> ancestors]}
  \cup UNION {TreeNodes(node.dependencies[k], Append(ancestors, node.itemId)) :
                k \in 1..Len(node.dependencies)}

PlanNodes ==
  UNION {TreeNodes(plan.dependencyRootNodes[k], <<>>) :
           k \in 1..Len(plan.dependencyRootNodes)}

HasProducer(i) ==
  \E k \in 1..Len(args.recipes) : HasEntry(args.recipes[k].outputs, i)
MarkedRaw(i) == i \in forcedRawMaterials \cup args.manualRawMaterials

\* C3: no facility count and no demand of a returned plan is negative.
C3_NonNegative ==
  Solved =>
    /\ \A r \in DOMAIN plan.flow.recipeFacilityCounts : RLe(RZero, CountOf(r))
    /\ \A i \in DOMAIN plan.flow.itemDemands : RLe(RZero, DemandOf(i))
    /\ \A n \in PlanNodes : /\ RLe(RZero, n.node.facilityCount)
                            /\ RLe(RZero, n.node.targetRate)

\* the catalog of C4: the only recipe for A consumes B and nothing else, the
\* only recipe for B consumes A and nothing else
MutualAB ==
  /\ Len(args.recipes) = 2
  /\ \E a \in 1..2 : \E b \in 1..2 :
       /\ Range(ItemIdsOf(args.recipes[a].outputs)) = {"A"}
       /\ Range(ItemIdsOf(args.recipes[a].inputs)) = {"B"}
       /\ Range(ItemIdsOf(args.recipes[b].outputs)) = {"B"}
       /\ Range(ItemIdsOf(args.recipes[b].inputs)) = {"A"}

\* C4: a solve of the two-item mutual dependency with target A (nothing
\* marked raw) reports exactly one cycle, over exactly A and B, and gives
\* both recipes a facility count >= 0.
C4_TwoItemCycle ==
  (Solved /\ MutualAB /\ TargetItems = {"A"} /\ args.manualRawMaterials = {})
    => /\ Len(plan.detectedCycles) = 1
       /\ Len(plan.detectedCycles[1].involvedItemIds) = 2
       /\ Range(plan.detectedCycles[1].involvedItemIds) = {"A", "B"}
       /\ \A k \in 1..2 : RLe(RZero, CountOf(args.recipes[k].id))
       /\ \A k \in 1..2 :
            RLe(RZero, plan.detectedCycles[1].cycleNodes[k].facilityCount)
       /\ \A n \in PlanNodes : RLe(RZero, n.node.facilityCount)

C4_Witness ==
  /\ Solved /\ MutualAB /\ TargetItems = {"A"} /\ args.manualRawMaterials = {}
  /\ Len(plan.detectedCycles) = 1
  /\ \A k \in 1..2 : RLt(RZero, CountOf(args.recipes[k].id))

\* the demand placed on a loop item from outside the loop: its target rate
\* plus what the selected recipes outside the loop consume of it
ExternalDemandOn(scc, i) ==
  LET rs == SelectSeq(plan.graph.recipeNodes,
                      LAMBDA r : r \notin Range(scc.recipes))
  IN  RAdd(TargetRateOf(i),
           SumSeq([a \in 1..Len(rs) |->
                     SumSeq([b \in 1..Len(RecipeOf(rs[a]).inputs) |->
                               IF RecipeOf(rs[a]).inputs[b].itemId = i
                               THEN RMul(InputRate(RecipeOf(rs[a]), b),
                                         CountOf(rs[a]))
                               ELSE RZero])]))

NetProduction(scc, i) ==
  SumSeq([j \in 1..Len(scc.recipes) |->
            RMul(sccMatrix(args, scc)[IndexOf(scc.items, i)][j],
                 CountOf(scc.recipes[j]))])

HasNonNegativeSolution(scc) ==
  LET sol == solveLinearSystem(sccMatrix(args, scc),
               [i \in 1..Len(scc.items) |-> ExternalDemandOn(scc, scc.items[i])])
  IN  /\ sol.solved
      /\ \A j \in 1..Len(sol.x) : RLe(RZero, sol.x[j])

PositiveTargets == \A k \in 1..Len(args.targets) : args.targets[k].rate > 0

\* C5: after a solve with positive target rates, in a square loop whose
\* system has a non-negative solution, the facility counts balance every loop
\* item: net production = external demand.
C5_SteadyState ==
  (Solved /\ PositiveTargets) =>
    \A k \in 1..Len(plan.sccs) :
      LET scc == plan.sccs[k] IN
      (Len(scc.items) = Len(scc.recipes) /\ HasNonNegativeSolution(scc))
        => \A i \in Range(scc.items) :
             NetProduction(scc, i) = ExternalDemandOn(scc, i)

\* C6: after a solve with positive target rates, every dependency of a node
\* with a recipe carries the node's own rate scaled by input amount / output
\* amount.
C6_LocalRatio ==
  (Solved /\ PositiveTargets) =>
    \A n \in PlanNodes :
      (n.node.recipe # NoRecipe
       /\ HasEntry(RecipeOf(n.node.recipe).outputs, n.node.itemId))
        => \A k \in 1..Len(n.node.dependencies) :
             n.node.dependencies[k].targetRate =
               RMul(n.node.targetRate,
                    Rat(RecipeOf(n.node.recipe).inputs[k].amount,
                        FindAmount(RecipeOf(n.node.recipe).outputs,
                                   n.node.itemId)))

IsLeaf(n) == n.node.dependencies = <<>>
IsRawLeaf(n) ==
  /\ n.node.isRawMaterial
  /\ ~HasProducer(n.node.itemId) \/ MarkedRaw(n.node.itemId)

\* C7 as claimed: every leaf is a target sink or a raw-material node.
C7_LeavesRawOrTarget ==
  Solved => \A n \in PlanNodes : IsLeaf(n) => (n.node.isTarget \/ IsRawLeaf(n))

\* C7 as amended: every leaf is a target sink, a raw-material node, a cycle
\* placeholder that repeats an item of its own path, or a node whose recipe
\* has no inputs.
C7_Leaves ==
  Solved =>
    \A n \in PlanNodes :
      IsLeaf(n) =>
        \/ n.node.isTarget
        \/ IsRawLeaf(n)
        \/ (n.node.isCyclePlaceholder /\ n.node.itemId \in Range(n.ancestors))
        \/ (n.node.recipe # NoRecipe
            /\ RecipeOf(n.node.recipe).inputs = <<>>)

C7_Witness ==
  /\ Solved
  /\ \E n \in PlanNodes :
       /\ IsLeaf(n) /\ n.node.isCyclePlaceholder
       /\ ~n.node.isTarget /\ ~n.node.isRawMaterial
       /\ HasProducer(n.node.itemId)
  /\ \E n \in PlanNodes : IsLeaf(n) /\ IsRawLeaf(n) /\ ~n.node.isTarget

\* C8: tree assembly ends within the depth the items allow; on every path
\* the expanded items are pairwise different, and a node that repeats an
\* item of its path is a placeholder naming that item, without recipe and
\* without dependencies.
C8_TreeAssembly ==
  Solved =>
    \A n \in PlanNodes :
      /\ ~n.node.overflow
      /\ Len(n.ancestors) <= Cardinality(Items)
      /\ \A a \in 1..Len(n.ancestors) : \A b \in 1..Len(n.ancestors) :
           a # b => n.ancestors[a] # n.ancestors[b]
      /\ n.node.itemId \in Range(n.ancestors) =>
           /\ n.node.isCyclePlaceholder
           /\ n.node.cycleItemId = n.node.itemId
           /\ n.node.recipe = NoRecipe
           /\ n.node.dependencies = <<>>
      /\ n.node.isCyclePlaceholder => n.node.itemId \in Range(n.ancestors)

C8_Witness ==
  /\ Solved
  /\ \E n \in PlanNodes :
       /\ n.node.isCyclePlaceholder
       /\ Len(n.ancestors) >= 2
       /\ n.node.itemId = n.ancestors[1]
       /\ n.node.cycleItemId = n.node.itemId

C10_RawNeverExpanded ==
  Solved =>
    /\ \A i \in Items :
         MarkedRaw(i) =>
           /\ plan.graph.itemProducedBy[i] = NoRecipe
           /\ i \in plan.graph.visitedItems => i \in plan.graph.rawMaterials
           /\ \A n \in PlanNodes :
                n.node.itemId = i =>
                  /\ n.node.isRawMaterial
                  /\ ~n.node.isCyclePlaceholder
                  /\ n.node.recipe = NoRecipe
                  /\ n.node.facilityCount = RZero
                  /\ n.node.dependencies = <<>>
    /\ \A r \in SelectedRecipes :
         \E j \in Items : ~MarkedRaw(j) /\ plan.graph.itemProducedBy[j] = r
    /\ \A i \in plan.graph.visitedItems :
         \/ i \in TargetItems
         \/ \E r \in SelectedRecipes : HasEntry(RecipeOf(r).inputs, i)

\* B is marked raw in the mutual dependency A <-> B: no loop is found and B
\* is a raw leaf under A
C10_Witness ==
  /\ Solved /\ MutualAB
  /\ args.manualRawMaterials = {"B"}
  /\ TargetItems = {"A"}
  /\ plan.sccs = <<>>
  /\ plan.graph.itemProducedBy["A"] # NoRecipe
  /\ \E n \in PlanNodes : n.node.itemId = "B" /\ n.node.isRawMaterial
                          /\ Len(n.ancestors) = 1

\* ------------------------------------------------------------------------
\* Errors of a solve.
\* ------------------------------------------------------------------------
Called == calls >= 1
NoPlanReturned ==
  /\ plan.status # "ok"
  /\ plan.dependencyRootNodes = <<>>
  /\ plan.detectedCycles = <<>>

\* C11: a call with an empty target list aborts with the error "No targets
\* specified" and returns no plan.
C11_EmptyTargets ==
  (Called /\ args.targets = <<>>)
    => (plan.status = "error: No targets specified" /\ NoPlanReturned)

C11_Witness ==
  /\ Called /\ args.targets = <<>>
  /\ args.recipes # <<>>
  /\ plan.status = "error: No targets specified"

\* C12: a call with a target whose rate is zero or negative aborts with an
\* error and returns no plan.
C12_NonPositiveRate ==
  (Called /\ \E k \in 1..Len(args.targets) : args.targets[k].rate <= 0)
    => NoPlanReturned

\* C13: a solve that returns a plan met no unknown identifier on its walk
\* (every visited item, every selected recipe's facility and every override
\* it looked up is in the catalog); a solve whose walk meets one aborts with
\* "<kind> not found: <identifier>" naming an identifier that is indeed
\* missing, and returns no plan.
OverrideLookedUp(i) ==
  /\ i \in DOMAIN args.recipeOverrides
  /\ ~MarkedRaw(i)
  /\ HasProducer(i)

C13_ReferenceErrors ==
  Called =>
    /\ Solved =>
         /\ plan.graph.visitedItems \subseteq args.items
         /\ \A r \in SelectedRecipes : RecipeOf(r).facilityId \in args.facilities
         /\ \A i \in plan.graph.visitedItems :
              OverrideLookedUp(i) =>
                /\ args.recipeOverrides[i] \in RecipeIdsOf(args.recipes)
                /\ plan.graph.itemProducedBy[i] = args.recipeOverrides[i]
    /\ \A k \in 1..Len(args.targets) :
         args.targets[k].itemId \notin args.items => ~Solved
    /\ ~Solved =>
         /\ NoPlanReturned
         /\ \/ plan.status = "error: No targets specified"
            \/ plan.status = "error: TypeError"
            \/ \E i \in Items \ args.items :
                 plan.status = "error: Item not found: " \o i
            \/ \E f \in {RecipeOf(r).facilityId : r \in RecipeIdsOf(args.recipes)}
                      \ args.facilities :
                 plan.status = "error: Facility not found: " \o f
            \/ \E i \in DOMAIN args.recipeOverrides :
                 /\ OverrideLookedUp(i)
                 /\ args.recipeOverrides[i] \notin RecipeIdsOf(args.recipes)
                 /\ plan.status = "error: Override recipe not found: "
                                    \o args.recipeOverrides[i]

\* C13 as claimed: a solve that returns a plan met no unknown identifier,
\* where every override of a visited item counts as met.
C13_EveryOverrideOfVisitedItem ==
  (Called /\ Solved) =>
    /\ plan.graph.visitedItems \subseteq args.items
    /\ \A r \in SelectedRecipes : RecipeOf(r).facilityId \in args.facilities
    /\ \A i \in plan.graph.visitedItems :
         i \in DOMAIN args.recipeOverrides =>
           args.recipeOverrides[i] \in RecipeIdsOf(args.recipes)

\* each of the three errors occurs: an input item missing below the target,
\* a missing facility, a missing override recipe
C13_Witness ==
  /\ Called
  /\ \/ /\ plan.status = "error: Item not found: C"
        /\ TargetItems = {"A"}
     \/ plan.status = "error: Facility not found: F1"
     \/ plan.status = "error: Override recipe not found: R3"
  /\ NoPlanReturned

\* what calculateProductionPlan hands to its caller
Returned ==
  [dependencyRootNodes |-> plan.dependencyRootNodes,
   detectedCycles      |-> plan.detectedCycles]

Recovered == plan.flow.warned # <<>> \/ plan.flow.clamped # {}

\* C14: a result of a solve that recovered from an unsolvable loop or clamped
\* a negative facility count carries a non-empty diagnostics list.
C14_DiagnosticsReturned ==
  (Called /\ Solved /\ Recovered) =>
    /\ "diagnostics" \in DOMAIN Returned
    /\ Returned.diagnostics # <<>>

\* ------------------------------------------------------------------------
\* The calls of the recipe-selection policy.
\* ------------------------------------------------------------------------
ConsumesFrom(r, S) ==
  \E i \in 1..Len(RecipeOf(r).inputs) : RecipeOf(r).inputs[i].itemId \in S

PolicyGetsWalk ==
  \A k \in 1..Len(plan.graph.policyCalls) :
    plan.graph.policyCalls[k].visitedPath =
      Range(plan.graph.policyCalls[k].walk)

SmartAvoidsWalk ==
  args.recipeSelector = "smart" =>
    \A k \in 1..Len(plan.graph.policyCalls) :
      LET c == plan.graph.policyCalls[k] IN
      ConsumesFrom(c.chosen, Range(c.walk)) =>
        \A r \in c.candidates : ConsumesFrom(r, Range(c.walk))

\* C15: every call of the policy gets the set of the items on the walk from
\* the target down to the item, and smartRecipeSelector chooses no recipe
\* that consumes an item of that walk while another candidate consumes none.
C15_PolicyGetsWalk == (Called /\ Solved) => (PolicyGetsWalk /\ SmartAvoidsWalk)

\* ------------------------------------------------------------------------
\* The detected cycles of a result.
\* ------------------------------------------------------------------------
\* sum over the recipes rs of the amounts of item i in their outputs / inputs
AmountProduced(rs, i) ==
  SumSeq([j \in 1..Len(rs) |-> RInt(FindAmount(RecipeOf(rs[j]).outputs, i))])
AmountConsumed(rs, i) ==
  SumSeq([j \in 1..Len(rs) |-> RInt(FindAmount(RecipeOf(rs[j]).inputs, i))])
NetItems(rs) ==
  {i \in Items : /\ \E j \in 1..Len(rs) : HasEntry(RecipeOf(rs[j]).outputs, i)
                 /\ AmountProduced(rs, i) # AmountConsumed(rs, i)}

\* C16: of every detected cycle, netOutputs maps exactly the items that the
\* cycle's recipes produce in another amount than they consume to produced
\* minus consumed, and breakPointItemId is one of involvedItemIds.
C16_CycleNetOutputs ==
  (Called /\ Solved) =>
    \A k \in 1..Len(plan.detectedCycles) :
      LET c  == plan.detectedCycles[k]
          rs == plan.sccs[k].recipes
      IN  /\ c.breakPointItemId \in Range(c.involvedItemIds)
          /\ DOMAIN c.netOutputs = NetItems(rs)
          /\ \A i \in NetItems(rs) :
               c.netOutputs[i] = RSub(AmountProduced(rs, i),
                                      AmountConsumed(rs, i))

\* ------------------------------------------------------------------------
\* The order in which calculateFlows processes the condensed vertices.
\* ------------------------------------------------------------------------
\* the condensed vertex of a selected recipe: its loop, or the recipe itself
VertexOf(r) == nodeToSCC(plan.sccs, r)
Processed(v) == \E k \in 1..Len(plan.order) : plan.order[k] = v
Consumes(r, i) == HasEntry(RecipeOf(r).inputs, i)
Produces(r, i) == HasEntry(RecipeOf(r).outputs, i)

\* C20: every selected recipe (or its loop) is processed, and one that
\* consumes an item is processed before the recipe (or loop) that produces
\* the item, unless both are in the same loop.
C20_ConsumersFirst ==
  (Called /\ Solved) =>
    /\ \A r \in SelectedRecipes : Processed(VertexOf(r))
    /\ \A rc \in SelectedRecipes : \A rp \in SelectedRecipes :
         \A i \in Items :
           (Consumes(rc, i) /\ Produces(rp, i) /\ VertexOf(rc) # VertexOf(rp))
             => IndexOf(plan.order, VertexOf(rc))
                  < IndexOf(plan.order, VertexOf(rp))

\* a recipe outside the loop {A, B} consumes an item of the loop and is
\* processed before the loop
C20_Witness ==
  /\ Called /\ Solved /\ PositiveTargets
  /\ Len(plan.sccs) = 1
  /\ \E rc \in SelectedRecipes \ LoopRecipes :
       /\ \E i \in LoopItems : Consumes(rc, i)
       /\ RLt(RZero, CountOf(rc))
       /\ IndexOf(plan.order, VertexOf(rc))
            < IndexOf(plan.order, plan.sccs[1].id)

\* ------------------------------------------------------------------------
\* Capacity pools (PoolSpec)
\* ------------------------------------------------------------------------
ThePool == poolManager.pools[PoolAt(poolManager, PoolKey)]
ActualOutputs(pool) ==
  [k \in 1..Len(pool.instances) |-> pool.instances[k].actualOutputRate]
PoolCapacity(pool) == RMul(pool.facilityCount, pool.fullRate)
\* n is the least whole number that is not below c
IsCeilOf(n, c) == RLe(c, RInt(n)) /\ (n = 0 \/ RLt(RInt(n - 1), c))
IsWhole(c) == c[2] = 1

\* C17: createPool for a facility count c makes ceil(c) instances indexed
\* 0..n-1 (none for c = 0); all but the last put out the full rate of one
\* facility, the last (c - floor(c)) times the full rate when c is not whole
\* and the full rate otherwise, so the outputs add up to c times the full
\* rate; c = 2.5 gives three instances at 1, 1 and 0.5 of the full rate.
C17_CreatePool ==
  hasPool(poolManager, PoolKey) =>
    LET pool == ThePool
        c == pool.facilityCount
        n == Len(pool.instances)
        out == ActualOutputs(pool)
    IN  /\ IsCeilOf(n, c)
        /\ \A k \in 1..n : pool.instances[k].facilityIndex = k - 1
        /\ \A k \in 1..(n - 1) : out[k] = pool.fullRate
        /\ n > 0 =>
             out[n] = IF IsWhole(c) THEN pool.fullRate
                      ELSE RMul(RSub(c, RInt(n - 1)), pool.fullRate)
        /\ RSum(out) = PoolCapacity(pool)
        /\ c = Rat(5, 2) =>
             out = <<pool.fullRate, pool.fullRate,
                     RMul(Rat(1, 2), pool.fullRate)>>

\* a pool for two and a half facilities exists
C17_Witness ==
  /\ hasPool(poolManager, PoolKey)
  /\ ThePool.facilityCount = Rat(5, 2)
  /\ Len(ThePool.instances) = 3
  /\ ThePool.instances[3].actualOutputRate # ThePool.fullRate

RECURSIVE AllocationsUpTo(_)
AllocationsUpTo(j) ==
  IF j = 0 THEN <<>> ELSE AllocationsUpTo(j - 1) \o poolLog[j].allocations
Amounts(allocations) ==
  [k \in 1..Len(allocations) |-> allocations[k].allocatedAmount]
AllocatedFrom(facilityId) ==
  RSum(Amounts(SelectSeq(AllocationsUpTo(Len(poolLog)),
                         LAMBDA a : a.sourceNodeId = facilityId)))
UnallocatedBefore(j) ==
  RSub(PoolCapacity(ThePool), RSum(Amounts(AllocationsUpTo(j - 1))))
InIndexOrder(allocations) ==
  \A a, b \in 1..Len(allocations) :
    a < b => allocations[a].sourceNodeId.index
               < allocations[b].sourceNodeId.index

\* C18: after any sequence of allocate calls on a pool, what was allocated
\* from each instance adds up to at most its actual output; each call
\* returns amounts drawn in instance-index order that add up to the smaller
\* of the demand and the capacity not yet allocated; the total never exceeds
\* c times the full rate.
C18_Allocate ==
  hasPool(poolManager, PoolKey) =>
    /\ \A k \in 1..Len(ThePool.instances) :
         RLe(AllocatedFrom(ThePool.instances[k].facilityId),
             ThePool.instances[k].actualOutputRate)
    /\ \A j \in 1..Len(poolLog) :
         /\ RSum(Amounts(poolLog[j].allocations))
              = RMin(poolLog[j].demandRate, UnallocatedBefore(j))
         /\ InIndexOrder(poolLog[j].allocations)
         /\ \A k \in 1..Len(poolLog[j].allocations) :
              RLt(RZero, poolLog[j].allocations[k].allocatedAmount)
    /\ RLe(RSum(Amounts(AllocationsUpTo(Len(poolLog)))),
           PoolCapacity(ThePool))

\* a call served from two instances, one of them used by an earlier call,
\* and a later call that asks for more than is left
C18_Witness ==
  /\ hasPool(poolManager, PoolKey)
  /\ Len(poolLog) = 3
  /\ Len(poolLog[1].allocations) = 1
  /\ Len(poolLog[2].allocations) = 2
  /\ poolLog[2].allocations[1].sourceNodeId
       = poolLog[1].allocations[1].sourceNodeId
  /\ RLt(UnallocatedBefore(3), poolLog[3].demandRate)
  /\ RLt(RZero, UnallocatedBefore(3))

\* ------------------------------------------------------------------------
\* Flow graph (FlowSpec)
\* ------------------------------------------------------------------------
Mapped == flowGraph.mapped
\* the facility instances and the sinks of produced targets
Consumers ==
  {n \in Range(flowGraph.flowNodes) : n.recipe # NoRecipe}
  \cup {[id |-> s.id, itemId |-> s.itemId, recipe |-> s.recipe,
         targetRate |-> s.targetRate] :
          s \in {t \in Range(flowGraph.targetSinkNodes) :
                   ~t.isRawMaterial /\ t.recipe # NoRecipe}}
EdgesTo(id, itemId) ==
  SelectSeq(flowGraph.edges,
            LAMBDA e : e.target = id /\ e.itemId = itemId)
Delivered(id, itemId) ==
  RSum([k \in 1..Len(EdgesTo(id, itemId)) |-> EdgesTo(id, itemId)[k].rate])
\* input amount / output amount x the consumer's output rate
Needs(consumer, itemId) ==
  RMul(Rat(FindAmount(RecipeOf(consumer.recipe).inputs, itemId),
           FindAmount(RecipeOf(consumer.recipe).outputs, consumer.itemId)),
       consumer.targetRate)
Supplied(consumer) ==
  \A itemId \in Range(ItemIdsOf(RecipeOf(consumer.recipe).inputs)) :
    Delivered(consumer.id, itemId) = Needs(consumer, itemId)

\* a plan of positive targets without overrides, over recipes of one output,
\* every loop of which was solved without a warning and without clamping
CleanlySolved ==
  /\ PositiveTargets
  /\ args.recipeOverrides = <<>>
  /\ \A k \in 1..Len(args.recipes) : Len(args.recipes[k].outputs) = 1
  /\ plan.flow.warned = <<>>
  /\ plan.flow.clamped = {}

\* C19: in the flow graph mapPlanToFlowSeparated builds from a cleanly
\* solved plan, the edges delivered to a consumer (facility instance or
\* target sink) for an input item of its recipe add up to the consumer's
\* demand for that item (input amount / output amount x the consumer's
\* output rate); no consumer is left short because a pool ran out.
C19_ConsumersSupplied ==
  (Mapped /\ CleanlySolved) => \A consumer \in Consumers : Supplied(consumer)

\* ------------------------------------------------------------------------
\* Loops of the production graph
\* ------------------------------------------------------------------------
\* the directed graph of the selection: item -> its selected recipe,
\* recipe -> each of its input items
SelectionVertices == Range(plan.graph.itemNodes) \cup Range(plan.graph.recipeNodes)
SelectionEdges ==
  {<<i, plan.graph.itemProducedBy[i]>> :
     i \in {j \in Range(plan.graph.itemNodes) :
              plan.graph.itemProducedBy[j] # NoRecipe}}
  \cup UNION {{<<r, i>> : i \in Range(plan.graph.recipeInputs[r])} :
                r \in Range(plan.graph.recipeNodes)}
RECURSIVE ReachFrom(_)
ReachFrom(S) ==
  LET next == S \cup {e[2] : e \in {d \in SelectionEdges : d[1] \in S}}
  IN  IF next = S THEN S ELSE ReachFrom(next)
ComponentOf(v) == {w \in ReachFrom({v}) : v \in ReachFrom({w})}
SelectionLoops ==
  {c \in {ComponentOf(v) : v \in SelectionVertices} : Cardinality(c) > 1}
ReturnedComponent(k) ==
  Range(plan.sccs[k].items) \cup Range(plan.sccs[k].recipes)
ReturnedLoops == {ReturnedComponent(k) : k \in 1..Len(plan.sccs)}

\* C21: for positive targets and without overrides, detectSCCs returns
\* exactly the strongly connected components of more than one vertex of the
\* graph item -> selected recipe, recipe -> input items: each returned
\* component is one of them, none is missing, no vertex is in two returned
\* components, and no component of one vertex is returned.
C21_ExactlyTheLoops ==
  (Solved /\ PositiveTargets /\ args.recipeOverrides = <<>>) =>
    /\ ReturnedLoops = SelectionLoops
    /\ \A j, k \in 1..Len(plan.sccs) :
         j # k => ReturnedComponent(j) \cap ReturnedComponent(k) = {}
    /\ \A k \in 1..Len(plan.sccs) : Cardinality(ReturnedComponent(k)) > 1

\* ------------------------------------------------------------------------
\* External demand of a loop
\* ------------------------------------------------------------------------
\* the loops whose flow was solved: at least one item with outside demand
UsedExternalDemands(scc) ==
  SelectSeq(plan.flow.externalDemands, LAMBDA e : e.sccId = scc.id)
\* what solveSCCFlow took as the external demand of a loop item
UsedExternalDemand(scc, i) ==
  LET es == SelectSeq(UsedExternalDemands(scc), LAMBDA e : e.itemId = i)
  IN  IF Len(es) = 0 THEN RZero ELSE es[Len(es)].demand
ConsumedOutside(scc, i) ==
  \E r \in SelectedRecipes \ Range(scc.recipes) :
    HasEntry(RecipeOf(r).inputs, i) /\ RLt(RZero, CountOf(r))

\* C22: for positive targets, the external demand solveSCCFlow uses for an
\* item of a loop is the item's target rate (if it is a target) plus what
\* every recipe outside the loop consumes of it (input rate x facility
\* count), each counted once.
C22_ExternalDemandOnce ==
  (Solved /\ PositiveTargets) =>
    \A k \in 1..Len(plan.sccs) :
      \A i \in Range(plan.sccs[k].items) :
        UsedExternalDemand(plan.sccs[k], i) = ExternalDemandOn(plan.sccs[k], i)

\* ------------------------------------------------------------------------
\* A loop whose linear system has no solution
\* ------------------------------------------------------------------------
\* the loops solveSCCFlow gave up on
UnsolvedLoops ==
  {k \in 1..Len(plan.sccs) :
     \E w \in 1..Len(plan.flow.warned) :
       plan.flow.warned[w] = <<"Cannot solve SCC", plan.sccs[k].id>>}
UnsolvedRecipes == UNION {Range(plan.sccs[k].recipes) : k \in UnsolvedLoops}
CycleNodesOf(k) ==
  {plan.detectedCycles[k].cycleNodes[j] :
     j \in 1..Len(plan.detectedCycles[k].cycleNodes)}

\* C23: a solve in which the linear system of a loop had no solution returns
\* a plan all the same: one tree per target, in the order of the targets, one
\* detected cycle per loop, and facility count 0 for every recipe of the
\* unsolved loop, in the counts, in the trees and in the cycle's nodes.
C23_UnsolvedLoopKept ==
  (Called /\ Solved /\ UnsolvedLoops # {}) =>
    /\ Len(plan.dependencyRootNodes) = Len(args.targets)
    /\ \A k \in 1..Len(args.targets) :
         /\ plan.dependencyRootNodes[k].itemId = args.targets[k].itemId
         /\ plan.dependencyRootNodes[k].isTarget
    /\ Len(plan.detectedCycles) = Len(plan.sccs)
    /\ \A k \in 1..Len(plan.sccs) :
         /\ plan.detectedCycles[k].cycleId = plan.sccs[k].id
         /\ plan.detectedCycles[k].involvedItemIds = plan.sccs[k].items
    /\ \A r \in UnsolvedRecipes : CountOf(r) = RZero
    /\ \A n \in PlanNodes :
         n.node.recipe \in UnsolvedRecipes => n.node.facilityCount = RZero
    /\ \A k \in UnsolvedLoops :
         \A n \in CycleNodesOf(k) : n.facilityCount = RZero

\* an unsolved loop under a target whose tree holds one of the loop's recipes
C23_Witness ==
  /\ Called /\ Solved /\ UnsolvedLoops # {}
  /\ \E n \in PlanNodes :
       /\ n.node.recipe \in UnsolvedRecipes
       /\ n.node.facilityCount = RZero
  /\ \E k \in UnsolvedLoops : plan.detectedCycles[k].cycleNodes # <<>>

\* ------------------------------------------------------------------------
\* The identifier of a loop
\* ------------------------------------------------------------------------
\* the solve of the same inputs with the targets in the opposite order
ReorderedPlan ==
  calculateProductionPlan([args EXCEPT !.targets = Reverse(@)])
CycleItems(c) == Range(c.involvedItemIds)
SameItemsSameId(cs, ds) ==
  \A j \in 1..Len(cs) : \A k \in 1..Len(ds) :
    (CycleItems(cs[j]) = CycleItems(ds[k])) <=> (cs[j].cycleId = ds[k].cycleId)

ProducedInPlan ==
  {n.node.itemId :
     n \in {p \in PlanNodes : /\ ~p.node.isCyclePlaceholder
                              /\ ~p.node.isRawMaterial
                              /\ p.node.recipe # NoRecipe}}
\* the dependencies allocateUpstream redirects to the producing pool
RedirectedDependencies ==
  {p \in PlanNodes :
     /\ p.ancestors # <<>>
     /\ p.node.itemId \in ProducedInPlan
     /\ p.node.isCyclePlaceholder \/ p.node.isRawMaterial}
FromProducerOf(e) ==
  /\ e.source.kind = "facility"
  /\ \E p \in PlanNodes :
       /\ p.node.itemId = e.itemId
       /\ ~p.node.isCyclePlaceholder /\ p.node.recipe # NoRecipe
       /\ e.source.key = createFlowNodeKey(p.node)

\* C25: in the flow graph of a plan, every edge that carries an item with a
\* production node in the plan - also the edges for a cycle placeholder or a
\* raw-marked dependency of such an item - starts at a facility instance of
\* the item's production step, no raw-material flow node exists for such an
\* item, and every capacity pool is the pool of a production step of the
\* plan: none is made for a placeholder.
C25_LoopFedByProducer ==
  Mapped =>
    /\ \A k \in 1..Len(flowGraph.edges) :
         flowGraph.edges[k].itemId \in ProducedInPlan =>
           FromProducerOf(flowGraph.edges[k])
    /\ \A k \in 1..Len(flowGraph.edges) :
         flowGraph.edges[k].direction = "backward" =>
           FromProducerOf(flowGraph.edges[k])
    /\ \A n \in Range(flowGraph.flowNodes) :
         n.itemId \in ProducedInPlan => n.id.kind = "facility"
    /\ flowGraph.rawMaterialNodes \cap ProducedInPlan = {}
    /\ \A key \in PoolKeys(flowGraph.poolManager) :
         \E p \in PlanNodes : /\ ~p.node.isCyclePlaceholder
                              /\ ~p.node.isRawMaterial
                              /\ key = createFlowNodeKey(p.node)

\* a cycle placeholder in the plan, and an edge allocated for it from a
\* facility of the item's producer
C25_Witness ==
  /\ Mapped
  /\ \E p \in RedirectedDependencies :
       /\ p.node.isCyclePlaceholder
       /\ \E k \in 1..Len(flowGraph.edges) :
            /\ flowGraph.edges[k].itemId = p.node.itemId
            /\ flowGraph.edges[k].direction = "backward"
            /\ flowGraph.edges[k].source.kind = "facility"
            /\ RLt(RZero, flowGraph.edges[k].rate)

\* ------------------------------------------------------------------------
\* Facility instances become flow nodes once
\* ------------------------------------------------------------------------
\* the node list mapPlanToFlowSeparated returns
ReturnedNodeIds ==
  [k \in 1..Len(flowGraph.flowNodes) |-> flowGraph.flowNodes[k].id]
  \o [k \in 1..Len(flowGraph.targetSinkNodes) |->
        flowGraph.targetSinkNodes[k].id]
NoDuplicates(s) == \A j, k \in 1..Len(s) : j # k => s[j] # s[k]
FacilityNodes == {n \in Range(flowGraph.flowNodes) : n.id.kind = "facility"}
\* the edges a consumer got for one input item from one source
EdgesFromTo(source, id, itemId) ==
  SelectSeq(flowGraph.edges,
            LAMBDA e : e.source = source /\ e.target = id /\ e.itemId = itemId)

\* C26: in the flow graph of a plan, with or without loops, no two returned
\* nodes have the same id, the facility instances marked processed are
\* exactly the facility flow nodes, and the inputs of a facility instance
\* were expanded once: for each input item of its recipe it got no more than
\* its demand, and at most one edge from each source.
C26_InstancesOnce ==
  Mapped =>
    /\ NoDuplicates(ReturnedNodeIds)
    /\ flowGraph.poolManager.processed = {n.id : n \in FacilityNodes}
    /\ \A n \in FacilityNodes :
         n.recipe # NoRecipe =>
           \A itemId \in Range(ItemIdsOf(RecipeOf(n.recipe).inputs)) :
             /\ RLe(Delivered(n.id, itemId), Needs(n, itemId))
             /\ \A k \in 1..Len(flowGraph.edges) :
                  Len(EdgesFromTo(flowGraph.edges[k].source, n.id, itemId)) <= 1

\* a loop in the plan: a facility instance that two consumers allocate from,
\* one of them through a cycle placeholder
C26_Witness ==
  /\ Mapped
  /\ plan.detectedCycles # <<>>
  /\ \E n \in FacilityNodes :
       /\ \E j, k \in 1..Len(flowGraph.edges) :
            /\ flowGraph.edges[j].source = n.id
            /\ flowGraph.edges[k].source = n.id
            /\ flowGraph.edges[j].target # flowGraph.edges[k].target
            /\ flowGraph.edges[j].direction = "backward"
       /\ \E k \in 1..Len(flowGraph.edges) : flowGraph.edges[k].target = n.id

\* ------------------------------------------------------------------------
\* The order of the condensed vertices
\* ------------------------------------------------------------------------
\* the loops, and the items and recipes of the graph outside every loop
CondensedVertices ==
  {plan.sccs[k].id : k \in 1..Len(plan.sccs)}
  \cup {VertexOf(v) : v \in Range(plan.graph.itemNodes)
                            \cup Range(plan.graph.recipeNodes)}

\* C27: the sort of the condensed graph does not fail, and the order it
\* returns holds every condensed vertex - every loop, and every item and
\* recipe of the graph outside the loops - once and nothing else, also when
\* a selected recipe has an output item that was never visited.
C27_OrderComplete ==
  Called =>
    /\ plan.status # "error: TypeError"
    /\ Solved =>
         /\ Range(plan.order) = CondensedVertices
         /\ \A j, k \in 1..Len(plan.order) : j # k => plan.order[j] # plan.order[k]

\* ------------------------------------------------------------------------
\* Production covers demand outside the loops
\* ------------------------------------------------------------------------
\* the items of the graph with a selected recipe, outside every loop
ProducedOutsideLoops ==
  {i \in Range(plan.graph.itemNodes) \ (plan.graph.rawMaterials \cup LoopItems) :
     plan.graph.itemProducedBy[i] # NoRecipe}
\* what the facilities of the selected recipe of item i make of i per minute
ProductionOf(i) ==
  LET r == plan.graph.itemProducedBy[i] IN
  RMul(calcRate(FindAmount(RecipeOf(r).outputs, i), RecipeOf(r).craftingTime),
       CountOf(r))

\* C28: for positive targets and without overrides, the facilities of the
\* selected recipe of a non-raw item outside the loops make at least the
\* item's accumulated demand of it, also when the item is not the output
\* with the highest rate of its recipe.
C28_DemandCovered ==
  (Solved /\ PositiveTargets /\ args.recipeOverrides = <<>>) =>
    \A i \in ProducedOutsideLoops : RLe(DemandOf(i), ProductionOf(i))

\* ------------------------------------------------------------------------
\* The selected recipe of an item
\* ------------------------------------------------------------------------
\* C29: the recipe the graph records as the producer of an item lists the
\* item among its outputs, also when it was taken from the override map.
C29_ProducerMakesItem ==
  (Called /\ Solved) =>
    \A i \in Range(plan.graph.itemNodes) :
      plan.graph.itemProducedBy[i] # NoRecipe =>
        Produces(plan.graph.itemProducedBy[i], i)

\* ------------------------------------------------------------------------
\* The flow view shows the latest plan
\* ------------------------------------------------------------------------
\* no layout is on its way and the layout effect has run
Settled == view.pending = <<>> /\ ~view.effectDue
Shown(nodes) == {[id |-> n.id, rate |-> n.rate] : n \in nodes}
Connected(edges) ==
  {[source |-> e.source, target |-> e.target, rate |-> e.rate] : e \in edges}

\* C30: whenever no layout is pending, the nodes and edges on display are
\* those of the latest plan, with its rates, and every node on display with
\* a saved position stands at it.
C30_LatestPlanShown ==
  (Settled /\ view.plan # NullPlan) =>
    /\ Shown(view.nodes) = Shown(flowDataOf(view.plan).nodes)
    /\ Connected(view.edges) = Connected(flowDataOf(view.plan).edges)
    /\ \A n \in view.nodes :
         n.id \in SavedIds(view.nodePositionsRef) =>
           n.position = SavedPosition(view.nodePositionsRef, n.id)

====
